---------------------------- MODULE Spec2Model ----------------------------
(***************************************************************************)
(* Preschool demand forecast (chuawjk/ecda).                               *)
(*                                                                         *)
(* The module models Forecaster.run (src/src/forecast.py) and the          *)
(* processors it drives: FertilityProcessor (src/src/process_fertility.py),*)
(* BTOProcessor (src/src/process_bto.py), ExistingResidentsProcessor       *)
(* (src/src/process_existing_residents.py) and PreschoolProcessor          *)
(* (src/src/process_preschools.py).                                        *)
(*                                                                         *)
(* Numbers.  The code computes in binary floating point; the model keeps   *)
(* the exact value of every intermediate amount as a fraction with a fixed *)
(* denominator, and the float the code holds lies within rounding error of *)
(* it.  Where the code truncates such a float (astype(int)) and the exact  *)
(* value is a whole number, the float may lie just below it, and the model *)
(* allows both integers (AsTypeIntOfFloat).  The fractions:                *)
(*   - an existing-resident amount is a numerator over ExistingDen         *)
(*     (rate / 1000, then * 0.5);                                          *)
(*   - an averaged birth rate is a numerator over BirthRateDen             *)
(*     (mean of 4 bins, then / 1000);                                      *)
(*   - a new-housing amount is a numerator over BTODen                     *)
(*     (units * rate, then * (12 - m % 12) / 12).                          *)
(* Year labels are the decimal strings the code uses as column and row     *)
(* labels; subzone labels are sequences of one-character strings.          *)
(***************************************************************************)
EXTENDS Integers, Sequences, FiniteSets, TLC

-----------------------------------------------------------------------------
(* Bounds of the model. *)

\* Forecaster: num_forecast_years ranges over 1..MaxForecastYears.
MaxForecastYears == 2
\* Forecaster: preschool_capacity ranges over 1..MaxCapacity.
MaxCapacity == 3
\* Fertility table: the yearly change of every rate ranges over 0..MaxRateSlope.
MaxRateSlope == 1
\* Single-year window calls: ages in months range over 0..MaxAgeMonths.
MaxAgeMonths == 72
\* Needed conversion calls: preschooler counts range over 0..MaxCount.
MaxCount == 24
\* Needed conversion calls: capacities range over 1..MaxCallCapacity.
MaxCallCapacity == 6
\* Multi-year window calls: lists of 1..MaxListLen forecast years.
MaxListLen == 3
\* Multi-year window calls: forecast years range over the MaxYearSpan years
\* after the current one.
MaxYearSpan == 4
\* Per-year calls evaluated out of order: the run has InterleavedYears
\* forecast years, one call each.
InterleavedYears == 3

-----------------------------------------------------------------------------
(* Program constants. *)

\* rates are stored per 1000 women
PerThousand == 1000
\* months per year
MonthsPerYear == 12

\* ExistingResidentsProcessor.all_mother_ages
all_mother_ages ==
    << "15 - 19 Years", "20 - 24 Years", "25 - 29 Years", "30 - 34 Years",
       "35 - 39 Years", "40 - 44 Years", "45 - 49 Years" >>

\* FertilityProcessor.mother_ages
mother_ages ==
    << "20 - 24 Years", "25 - 29 Years", "30 - 34 Years", "35 - 39 Years" >>

\* Denominators of the exact fractions (see the header).
ExistingDen == 2 * PerThousand
BirthRateDen == Len(mother_ages) * PerThousand
BTODen == BirthRateDen * MonthsPerYear

-----------------------------------------------------------------------------
(* Generic helpers. *)

SeqToSet(s) == { s[i] : i \in 1..Len(s) }

\* Python max() over a non-empty collection of integers
Max(S) == CHOOSE x \in S : \A y \in S : y <= x

\* Python range(a, b) as a list
Range(a, b) == [ i \in 1..(b - a) |-> a + i - 1 ]

\* str(year): the decimal label of a year
Str(y) == ToString(y)

\* The years whose labels the model can parse.
YearDomain == 2000..2049

\* int(label): the year a decimal label denotes
IntOf(s) == CHOOSE y \in YearDomain : ToString(y) = s

\* round(m / 12), a variant that drops the fraction.
RoundYearsTruncated(m) == m \div MonthsPerYear

\* round(m / 12), a variant that rounds an exact half up.
RoundYearsHalfUp(m) == (2 * m + MonthsPerYear) \div (2 * MonthsPerYear)

\* Python round(m / 12) for an integer m >= 0: nearest integer, an exact
\* half goes to the even neighbour.
RoundYears(m) ==
    LET q == m \div MonthsPerYear
        r == m % MonthsPerYear
    IN  IF 2 * r < MonthsPerYear THEN q
        ELSE IF 2 * r > MonthsPerYear THEN q + 1
        ELSE IF q % 2 = 0 THEN q ELSE q + 1

\* numpy round(n / d, 0) followed by astype(int), d > 0: nearest integer,
\* an exact half goes to the even neighbour.
RoundHalfEven(n, d) ==
    LET q == n \div d
        r == n % d
    IN  IF 2 * r < d THEN q
        ELSE IF 2 * r > d THEN q + 1
        ELSE IF q % 2 = 0 THEN q ELSE q + 1

\* astype(int) of the fraction n / d, d > 0: truncation toward zero
AsTypeInt(n, d) == IF n >= 0 THEN n \div d ELSE -((-n) \div d)

\* astype(int) of a float accumulated from rounded products (rate / 1000
\* is not a binary fraction) whose exact value is n / d, d > 0: the
\* integers the truncation can give. A sum of exactly 11 may be held as
\* 10.999999999999998 and truncate to 10; a value that is not whole is
\* further from the next integer than the rounding error.
AsTypeIntOfFloat(n, d) ==
    IF n % d = 0 /\ n # 0
    THEN { n \div d, IF n > 0 THEN (n \div d) - 1 ELSE (n \div d) + 1 }
    ELSE { AsTypeInt(n, d) }

\* The series over the labels of acc whose cells are truncations of the
\* floats with exact values acc[label] / d.
TruncatedSeries(acc, d) ==
    { series \in [ DOMAIN acc ->
                     UNION { AsTypeIntOfFloat(acc[label], d) :
                               label \in DOMAIN acc } ] :
        \A label \in DOMAIN acc :
            series[label] \in AsTypeIntOfFloat(acc[label], d) }

\* The float arithmetic is deterministic: the same sum of the same terms
\* truncates to the same integer each time it is computed. A record of
\* truncations maps << side, target year, subzone, exact numerator >> to
\* the integer astype(int) gave. The series of TruncatedSeries(acc, d) that
\* agree with the record `memo`:
AgreeingTruncations(memo, side, target_year, acc, d) ==
    { series \in TruncatedSeries(acc, d) :
        \A label \in DOMAIN acc :
            << side, target_year, label, acc[label] >> \in DOMAIN memo =>
                series[label] =
                    memo[<< side, target_year, label, acc[label] >>] }

\* The record `memo` with the truncations of `series` added.
RecordTruncations(memo, side, target_year, acc, series) ==
    LET keys == { << side, target_year, label, acc[label] >> :
                    label \in DOMAIN acc }
    IN  [ key \in DOMAIN memo \cup keys |->
            IF key \in DOMAIN memo THEN memo[key] ELSE series[key[3]] ]

\* str.strip() on a label: drop leading and trailing blanks
RECURSIVE StripLeft(_)
StripLeft(s) ==
    IF s # << >> /\ Head(s) = " " THEN StripLeft(Tail(s)) ELSE s

RECURSIVE StripRight(_)
StripRight(s) ==
    IF s # << >> /\ s[Len(s)] = " "
    THEN StripRight(SubSeq(s, 1, Len(s) - 1))
    ELSE s

Strip(s) == StripRight(StripLeft(s))

-----------------------------------------------------------------------------
(* FertilityProcessor (src/src/process_fertility.py). *)

\* birth_years_for_single_forecast_year, an off-by-one variant: the end of
\* the range is exclusive.
BirthYearsSingleExclusiveEnd(fyear, min_age, max_age) ==
    LET start_birth_year == fyear - RoundYears(max_age)
        end_birth_year == fyear - RoundYears(min_age)
    IN  Range(start_birth_year, end_birth_year)

\* birth_years_for_single_forecast_year
birth_years_for_single_forecast_year(fyear, min_age, max_age) ==
    LET start_birth_year == fyear - RoundYears(max_age)
        end_birth_year == fyear - RoundYears(min_age)
    IN  Range(start_birth_year, end_birth_year + 1)

\* The loop of birth_years_for_multiple_forecast_years, a variant that
\* extends the list by the whole window of every later year.
RECURSIVE MultiLoopWholeWindow(_, _, _, _, _)
MultiLoopWholeWindow(fyears, i, acc_years, min_age, max_age) ==
    IF i > Len(fyears) THEN acc_years
    ELSE MultiLoopWholeWindow(fyears, i + 1,
            acc_years \o birth_years_for_single_forecast_year(
                             fyears[i], min_age, max_age),
            min_age, max_age)

\* The loop of birth_years_for_multiple_forecast_years, a variant that
\* appends the start of the window of every later year.
RECURSIVE MultiLoopAppendStart(_, _, _, _, _)
MultiLoopAppendStart(fyears, i, acc_years, min_age, max_age) ==
    IF i > Len(fyears) THEN acc_years
    ELSE MultiLoopAppendStart(fyears, i + 1,
            Append(acc_years,
                   birth_years_for_single_forecast_year(
                       fyears[i], min_age, max_age)[1]),
            min_age, max_age)

\* birth_years_for_multiple_forecast_years: the loop, with acc_years
\* already holding the first window.
RECURSIVE MultiLoop(_, _, _, _, _)
MultiLoop(fyears, i, acc_years, min_age, max_age) ==
    IF i > Len(fyears) THEN acc_years
    ELSE MultiLoop(fyears, i + 1,
            Append(acc_years,
                   Max(SeqToSet(birth_years_for_single_forecast_year(
                                    fyears[i], min_age, max_age)))),
            min_age, max_age)

\* birth_years_for_multiple_forecast_years (fyears non-empty)
birth_years_for_multiple_forecast_years(fyears, min_age, max_age) ==
    MultiLoop(fyears, 2,
              birth_years_for_single_forecast_year(fyears[1],
                                                   min_age, max_age),
              min_age, max_age)

\* The fertility table is a function: column label -> (age bin -> rate).
AvailableYears(fdata) == { IntOf(c) : c \in DOMAIN fdata }

\* The loop of extrapolate_births: for year in range(first, last + 1)
RECURSIVE ExtrapolateLoop(_, _, _, _, _)
ExtrapolateLoop(fdata, year, last, latest, available_years) ==
    IF year > last THEN fdata
    ELSE ExtrapolateLoop(
            IF year \notin available_years
            THEN [ c \in DOMAIN fdata \cup {Str(year)} |->
                     IF c = Str(year) THEN fdata[Str(latest)]
                     ELSE fdata[c] ]
            ELSE fdata,
            year + 1, last, latest, available_years)

\* extrapolate_births, a variant that fills one year per call: the loop is
\* an "if" on the first missing year.
ExtrapolateOneYear(fdata, byears) ==
    LET available_years == AvailableYears(fdata)
        latest_available_year == Max(available_years)
    IN  IF latest_available_year < Max(SeqToSet(byears))
        THEN ExtrapolateLoop(fdata, latest_available_year + 1,
                             latest_available_year + 1,
                             latest_available_year, available_years)
        ELSE fdata

\* extrapolate_births, a variant that copies the column of the year before
\* the latest one.
ExtrapolateFromPrevious(fdata, byears) ==
    LET available_years == AvailableYears(fdata)
        latest_available_year == Max(available_years)
    IN  IF latest_available_year < Max(SeqToSet(byears))
        THEN ExtrapolateLoop(fdata, latest_available_year + 1,
                             Max(SeqToSet(byears)),
                             latest_available_year - 1, available_years)
        ELSE fdata

\* extrapolate_births (byears non-empty, the table has a column)
extrapolate_births(fdata, byears) ==
    LET available_years == AvailableYears(fdata)
        latest_available_year == Max(available_years)
    IN  IF latest_available_year < Max(SeqToSet(byears))
        THEN ExtrapolateLoop(fdata, latest_available_year + 1,
                             Max(SeqToSet(byears)),
                             latest_available_year, available_years)
        ELSE fdata

\* Sum of the stored rates of the bins of a list, in one column.
RECURSIVE SumRates(_, _, _)
SumRates(column, bins, i) ==
    IF i > Len(bins) THEN 0
    ELSE column[bins[i]] + SumRates(column, bins, i + 1)

\* .loc[rows, columns] raises KeyError when a label is missing
LocOk(fdata, bins, byears) ==
    /\ \A y \in SeqToSet(byears) : Str(y) \in DOMAIN fdata
    /\ \A c \in DOMAIN fdata :
          SeqToSet(bins) \subseteq DOMAIN fdata[c]

\* get_birth_rates_for_forecast_years, a variant that takes the rows of
\* all seven bins.
BirthRatesOverAllBins(fdata, byears) ==
    [ c \in { Str(y) : y \in SeqToSet(byears) } |->
        SumRates(fdata[c], all_mother_ages, 1) ]

\* get_birth_rates_for_forecast_years: label -> mean rate, as a numerator
\* over BirthRateDen.  Defined when LocOk holds.
get_birth_rates_for_forecast_years(fdata, byears) ==
    [ c \in { Str(y) : y \in SeqToSet(byears) } |->
        SumRates(fdata[c], mother_ages, 1) ]


-----------------------------------------------------------------------------
(* BTOProcessor (src/src/process_bto.py). *)

\* A project row of the BTO file: [Subzone, Year, Units].

\* Code point order of the characters used in subzone labels.
CharRank(c) ==
    CASE c = " " -> 0
      [] c = "A" -> 1
      [] c = "B" -> 2
      [] OTHER   -> 3

\* Python string order on labels (what pivot_table sorts its index by).
RECURSIVE LabelLess(_, _)
LabelLess(a, b) ==
    IF a = << >> THEN b # << >>
    ELSE IF b = << >> THEN FALSE
    ELSE IF Head(a) # Head(b) THEN CharRank(Head(a)) < CharRank(Head(b))
    ELSE LabelLess(Tail(a), Tail(b))

\* The labels of a set as the sorted list pivot_table produces.
SortedLabels(S) ==
    CHOOSE s \in [ 1..Cardinality(S) -> S ] :
        /\ \A i, j \in 1..Cardinality(S) : i < j => LabelLess(s[i], s[j])

\* aggfunc="sum": the units of the rows of one subzone and one year
RECURSIVE PivotSum(_, _, _, _)
PivotSum(rows, subzone, year, i) ==
    IF i > Len(rows) THEN 0
    ELSE (IF rows[i].Subzone = subzone /\ rows[i].Year = year
          THEN rows[i].Units ELSE 0)
         + PivotSum(rows, subzone, year, i + 1)

\* The cells of one subzone, a variant without the cumulative sum: the
\* pivot cell of the year alone.
RECURSIVE CumSumYearOnly(_, _, _, _)
CumSumYearOnly(rows, subzone, years, year) ==
    IF years = {} THEN 0
    ELSE LET y == Max(years)
         IN  (IF y = year THEN PivotSum(rows, subzone, y, 1) ELSE 0)
             + CumSumYearOnly(rows, subzone, years \ {y}, year)

\* cumsum(axis=1): the pivot cells of one subzone up to a year
RECURSIVE CumSum(_, _, _, _)
CumSum(rows, subzone, years, year) ==
    IF years = {} THEN 0
    ELSE LET y == Max(years)
         IN  (IF y <= year THEN PivotSum(rows, subzone, y, 1) ELSE 0)
             + CumSum(rows, subzone, years \ {y}, year)

\* get_cumulative_bto_units_by_subzone.  The result is a frame
\* [index: year labels, columns: list of stripped subzone labels,
\*  data: year label -> list of cumulative units, one per column].
get_cumulative_bto_units_by_subzone(bdata, years) ==
    LET last == Max(SeqToSet(years))
        bto_data_for_forecast == SelectSeq(bdata, LAMBDA p : p.Year <= last)
        subzones == { p.Subzone : p \in SeqToSet(bto_data_for_forecast) }
        completion == { p.Year : p \in SeqToSet(bto_data_for_forecast) }
        sorted == SortedLabels(subzones)
    IN  [ index   |-> { Str(y) : y \in completion },
          columns |-> [ i \in 1..Len(sorted) |-> Strip(sorted[i]) ],
          data    |-> [ s \in { Str(y) : y \in completion } |->
                          [ i \in 1..Len(sorted) |->
                              CumSum(bto_data_for_forecast, sorted[i],
                                     completion, IntOf(s)) ] ] ]

-----------------------------------------------------------------------------
(* ExistingResidentsProcessor (src/src/process_existing_residents.py). *)

\* The first and last age of each bin of all_mother_ages, as get_age_bins
\* reads them from the bin's name.
BinBounds ==
    ("15 - 19 Years" :> << 15, 19 >>) @@ ("20 - 24 Years" :> << 20, 24 >>) @@
    ("25 - 29 Years" :> << 25, 29 >>) @@ ("30 - 34 Years" :> << 30, 34 >>) @@
    ("35 - 39 Years" :> << 35, 39 >>) @@ ("40 - 44 Years" :> << 40, 44 >>) @@
    ("45 - 49 Years" :> << 45, 49 >>)

\* get_age_bins: str(age) -> bin name
get_age_bins ==
    LET AgesOf(b) == BinBounds[b][1]..BinBounds[b][2]
        ages == UNION { AgesOf(all_mother_ages[i]) :
                          i \in 1..Len(all_mother_ages) }
    IN  [ a \in { ToString(x) : x \in ages } |->
            CHOOSE b \in DOMAIN BinBounds :
                \E x \in AgesOf(b) : ToString(x) = a ]

\* The position of a bin in all_mother_ages (bin names sort in this order).
BinIndex(age_bin) ==
    CHOOSE i \in 1..Len(all_mother_ages) : all_mother_ages[i] = age_bin

\* The order groupby(["Subzone", "Age Bin"]) sorts its keys by.
KeyLess(k1, k2) ==
    \/ LabelLess(k1[1], k2[1])
    \/ k1[1] = k2[1] /\ BinIndex(k1[2]) < BinIndex(k2[2])

\* The count of one group, a variant that keeps the first row of the group
\* instead of the sum of its rows.
RECURSIVE FirstOfGroup(_, _, _)
FirstOfGroup(rows, key, i) ==
    IF i > Len(rows) THEN 0
    ELSE IF /\ rows[i].Subzone = key[1]
            /\ ToString(rows[i].Age) \in DOMAIN get_age_bins
            /\ get_age_bins[ToString(rows[i].Age)] = key[2]
         THEN rows[i].Count
         ELSE FirstOfGroup(rows, key, i + 1)

\* ["Count"].sum() of one group
RECURSIVE GroupCount(_, _, _)
GroupCount(rows, key, i) ==
    IF i > Len(rows) THEN 0
    ELSE (IF /\ rows[i].Subzone = key[1]
             /\ ToString(rows[i].Age) \in DOMAIN get_age_bins
             /\ get_age_bins[ToString(rows[i].Age)] = key[2]
          THEN rows[i].Count ELSE 0)
         + GroupCount(rows, key, i + 1)

\* aggregate_women_by_age_bin on the cleaned rows (Subzone, Age, Count):
\* rows whose age maps to no bin are dropped, the others are grouped by
\* (Subzone, Age Bin) and summed.
aggregate_women_by_age_bin(rows) ==
    LET keys == { << rows[i].Subzone, get_age_bins[ToString(rows[i].Age)] >> :
                    i \in { j \in 1..Len(rows) :
                              ToString(rows[j].Age) \in DOMAIN get_age_bins } }
        n == Cardinality(keys)
        sorted == CHOOSE q \in [ 1..n -> keys ] :
                      \A i, j \in 1..n : i < j => KeyLess(q[i], q[j])
    IN  [ i \in 1..n |->
            [ Subzone |-> sorted[i][1], AgeBin |-> sorted[i][2],
              Count |-> GroupCount(rows, sorted[i], 1) ] ]

-----------------------------------------------------------------------------
(* Forecaster: the two estimators (src/src/forecast.py). *)

\* The resident table is a list of rows [Subzone, AgeBin, Count].

\* subzone_data[subzone_data["Age Bin"] == age_bin]["Count"].sum()
RECURSIVE WomenInAgeBin(_, _, _, _)
WomenInAgeBin(women, subzone, age_bin, i) ==
    IF i > Len(women) THEN 0
    ELSE (IF women[i].Subzone = subzone /\ women[i].AgeBin = age_bin
          THEN women[i].Count ELSE 0)
         + WomenInAgeBin(women, subzone, age_bin, i + 1)

\* The loop over all_mother_ages, a variant that gives up the whole birth
\* year when the rates of the year lack one of the bins.
RECURSIVE TotalBirthsAllBinsOrNone(_, _, _, _)
TotalBirthsAllBinsOrNone(women, subzone, rates_for_year, i) ==
    IF i > Len(all_mother_ages) THEN 0
    ELSE IF ~(SeqToSet(all_mother_ages) \subseteq DOMAIN rates_for_year)
    THEN 0
    ELSE LET age_bin == all_mother_ages[i]
             women_in_age_bin == WomenInAgeBin(women, subzone, age_bin, 1)
         IN  (IF women_in_age_bin > 0
              THEN women_in_age_bin * rates_for_year[age_bin]
                     * (ExistingDen \div PerThousand)
              ELSE 0)
             + TotalBirthsAllBinsOrNone(women, subzone, rates_for_year, i + 1)

\* The loop over all_mother_ages: total_births_in_subzone for one birth
\* year, a numerator over ExistingDen.
RECURSIVE TotalBirthsInSubzone(_, _, _, _)
TotalBirthsInSubzone(women, subzone, rates_for_year, i) ==
    IF i > Len(all_mother_ages) THEN 0
    ELSE LET age_bin == all_mother_ages[i]
             women_in_age_bin == WomenInAgeBin(women, subzone, age_bin, 1)
         IN  (IF women_in_age_bin > 0 /\ age_bin \in DOMAIN rates_for_year
              THEN women_in_age_bin * rates_for_year[age_bin]
                     * (ExistingDen \div PerThousand)
              ELSE 0)
             + TotalBirthsInSubzone(women, subzone, rates_for_year, i + 1)

\* One birth year's addition to subzone_preschoolers[subzone], with the
\* half applied to the birth year min(window) instead of max(window).
ExistingYearTermHalfAtMin(women, subzone, rates, window, birth_year) ==
    IF Str(birth_year) \in DOMAIN rates
    THEN LET total == TotalBirthsInSubzone(women, subzone,
                                           rates[Str(birth_year)], 1)
         IN  IF birth_year = window[1]
             THEN total \div 2
             ELSE total
    ELSE 0

\* One birth year's addition to subzone_preschoolers[subzone].
ExistingYearTerm(women, subzone, rates, window, birth_year) ==
    IF Str(birth_year) \in DOMAIN rates
    THEN LET total == TotalBirthsInSubzone(women, subzone,
                                           rates[Str(birth_year)], 1)
         IN  IF birth_year = Max(SeqToSet(window))
             THEN total \div 2
             ELSE total
    ELSE 0

\* The loop over birth_years_for_target for one subzone.
RECURSIVE ExistingLoop(_, _, _, _, _)
ExistingLoop(women, subzone, rates, window, i) ==
    IF i > Len(window) THEN 0
    ELSE ExistingYearTerm(women, subzone, rates, window, window[i])
         + ExistingLoop(women, subzone, rates, window, i + 1)

\* calculate_existing_preschoolers_for_year, before fillna / astype(int):
\* subzone -> numerator over ExistingDen
ExistingAccumulated(window, rates, women) ==
    [ subzone \in { women[i].Subzone : i \in 1..Len(women) } |->
        ExistingLoop(women, subzone, rates, window, 1) ]

\* calculate_existing_preschoolers_for_year: the series subzone -> int
\* the call can return
calculate_existing_preschoolers_for_year(window, rates, women) ==
    TruncatedSeries(ExistingAccumulated(window, rates, women), ExistingDen)

\* children_from_birth_year[subzone] after the groupby-sum over equal
\* column labels: a numerator over BTODen, before the discount
RECURSIVE ChildrenFromBirthYear(_, _, _, _, _)
ChildrenFromBirthYear(frame, label, subzone, fertility_rate, i) ==
    IF i > Len(frame.columns) THEN 0
    ELSE (IF frame.columns[i] = subzone
          THEN frame.data[label][i] * fertility_rate * MonthsPerYear
          ELSE 0)
         + ChildrenFromBirthYear(frame, label, subzone, fertility_rate, i + 1)

\* One birth year's addition to subzone_preschoolers[subzone], with the
\* partial-year factor applied to every birth year of the window.
BTOYearTermDiscountAll(frame, subzone, birth_rates, window, birth_year, min_age) ==
    IF Str(birth_year) \in frame.index
    THEN LET children == ChildrenFromBirthYear(frame, Str(birth_year), subzone,
                                birth_rates[Str(birth_year)], 1)
         IN  IF min_age % MonthsPerYear # 0
             THEN (children * (MonthsPerYear - (min_age % MonthsPerYear)))
                    \div MonthsPerYear
             ELSE children
    ELSE 0

\* One birth year's addition to subzone_preschoolers[subzone].
BTOYearTerm(frame, subzone, birth_rates, window, birth_year, min_age) ==
    IF Str(birth_year) \in frame.index
    THEN LET children == ChildrenFromBirthYear(frame, Str(birth_year), subzone,
                                birth_rates[Str(birth_year)], 1)
         IN  IF /\ birth_year = Max(SeqToSet(window))
                /\ min_age % MonthsPerYear # 0
             THEN (children * (MonthsPerYear - (min_age % MonthsPerYear)))
                    \div MonthsPerYear
             ELSE children
    ELSE 0

\* The loop over birth_years_for_target for one subzone.
RECURSIVE BTOLoop(_, _, _, _, _, _)
BTOLoop(frame, subzone, birth_rates, window, i, min_age) ==
    IF i > Len(window) THEN 0
    ELSE BTOYearTerm(frame, subzone, birth_rates, window, window[i], min_age)
         + BTOLoop(frame, subzone, birth_rates, window, i + 1, min_age)

\* birth_rates[birth_year_str] raises KeyError when the label is missing
BTOLookupOk(frame, birth_rates, window) ==
    \A y \in SeqToSet(window) :
        Str(y) \in frame.index => Str(y) \in DOMAIN birth_rates

\* calculate_bto_preschoolers_for_year, before fillna / astype(int):
\* subzone -> numerator over BTODen
BTOAccumulated(window, birth_rates, frame, min_age) ==
    [ subzone \in SeqToSet(frame.columns) |->
        BTOLoop(frame, subzone, birth_rates, window, 1, min_age) ]

\* calculate_bto_preschoolers_for_year: the series subzone -> int the call
\* can return
calculate_bto_preschoolers_for_year(window, birth_rates, frame, min_age) ==
    TruncatedSeries(BTOAccumulated(window, birth_rates, frame, min_age),
                    BTODen)

\* calculate_preschoolers_for_year, combining over the intersection of the
\* two indexes instead of their union.
CombineOverIntersection(existing_preschoolers, bto_preschoolers) ==
    [ subzone \in DOMAIN existing_preschoolers \cap DOMAIN bto_preschoolers |->
        existing_preschoolers[subzone] + bto_preschoolers[subzone] ]

\* calculate_preschoolers_for_year with the new-housing value subtracted
\* from the existing-resident value.
CombineExistingMinusHousing(existing_preschoolers, bto_preschoolers) ==
    [ subzone \in DOMAIN existing_preschoolers \cup DOMAIN bto_preschoolers |->
        (IF subzone \in DOMAIN existing_preschoolers
         THEN existing_preschoolers[subzone] ELSE 0)
        - (IF subzone \in DOMAIN bto_preschoolers
           THEN bto_preschoolers[subzone] ELSE 0) ]

\* calculate_preschoolers_for_year, lines 271-285: the combination
CombinePreschoolers(existing_preschoolers, bto_preschoolers) ==
    [ subzone \in DOMAIN existing_preschoolers \cup DOMAIN bto_preschoolers |->
        (IF subzone \in DOMAIN existing_preschoolers
         THEN existing_preschoolers[subzone] ELSE 0)
        + (IF subzone \in DOMAIN bto_preschoolers
           THEN bto_preschoolers[subzone] ELSE 0) ]

\* The frame of all years, a variant that loses the row of the first year.
PreschoolersFrameWithoutFirst(by_year) ==
    LET subzones == UNION { DOMAIN by_year[y] : y \in DOMAIN by_year }
        first == CHOOSE y \in DOMAIN by_year :
                     \A z \in DOMAIN by_year : y <= z
    IN  [ y \in DOMAIN by_year \ { first } |->
            [ s \in subzones |->
                IF s \in DOMAIN by_year[y] THEN by_year[y][s] ELSE 0 ] ]

\* calculate_preschoolers_all_years, lines 328-331: the dictionary of
\* per-year series as a frame year -> (subzone -> value), missing cells 0
PreschoolersFrame(by_year) ==
    LET subzones == UNION { DOMAIN by_year[y] : y \in DOMAIN by_year }
    IN  [ y \in DOMAIN by_year |->
            [ s \in subzones |->
                IF s \in DOMAIN by_year[y] THEN by_year[y][s] ELSE 0 ] ]

\* Forecaster.run, lines 424-428, rounding exact halves up
PreschoolsNeededHalfUp(num_preschoolers, capacity) ==
    [ y \in DOMAIN num_preschoolers |->
        [ s \in DOMAIN num_preschoolers[y] |->
            (2 * num_preschoolers[y][s] + capacity) \div (2 * capacity) ] ]

\* Forecaster.run, lines 424-428: (frame / capacity).round(0).astype(int)
PreschoolsNeeded(num_preschoolers, capacity) ==
    [ y \in DOMAIN num_preschoolers |->
        [ s \in DOMAIN num_preschoolers[y] |->
            RoundHalfEven(num_preschoolers[y][s], capacity) ] ]

\* Forecaster.run, lines 425-426: (frame / capacity).round(0), a frame of
\* floats. A cell is << "finite", n >>, or what pandas' division by zero
\* gives: << "inf" >>, << "-inf" >>, or << "nan" >> for 0 / 0.
QuotientRounded(num_preschoolers, capacity) ==
    [ y \in DOMAIN num_preschoolers |->
        [ s \in DOMAIN num_preschoolers[y] |->
            IF capacity # 0
            THEN << "finite", RoundHalfEven(num_preschoolers[y][s], capacity) >>
            ELSE IF num_preschoolers[y][s] > 0 THEN << "inf" >>
            ELSE IF num_preschoolers[y][s] < 0 THEN << "-inf" >>
            ELSE << "nan" >> ] ]

\* The cells of a float frame that astype(int) cannot convert.
NonFiniteCells(frame) ==
    { << y, s >> \in UNION { { y } \X DOMAIN frame[y] : y \in DOMAIN frame } :
        frame[y][s][1] # "finite" }

\* calculate_preschool_gap with the subtraction the other way round
GapNeededMinusSupply(supply, needed) ==
    [ y \in DOMAIN needed |->
        [ s \in DOMAIN needed[y] |->
            IF s \in DOMAIN supply
            THEN needed[y][s] - supply[s]
            ELSE needed[y][s] ] ]

\* calculate_preschool_gap: supply is subzone -> num_preschools
calculate_preschool_gap(supply, needed) ==
    [ y \in DOMAIN needed |->
        [ s \in DOMAIN needed[y] |->
            IF s \in DOMAIN supply
            THEN supply[s] - needed[y][s]
            ELSE needed[y][s] ] ]

-----------------------------------------------------------------------------
(* Inputs. *)

\* Config.current_year: the calendar year of the run
CurrentYear == 2026

Lab_A == << "A" >>
Lab_B == << "B" >>
Lab_C == << "C" >>
Lab_A_sp == << "A", " " >>

\* (min_preschool_age, max_preschool_age) in months; <<18, 72>> is the default
AgeConfigs ==
    { << 18, 72 >>, << 18, 30 >>, << 6, 30 >>, << 7, 18 >>, << 12, 24 >> }

\* The stored rate (per 1000 women) of every age bin in the first observed year.
BaseRate ==
    [ b \in SeqToSet(all_mother_ages) |->
        CASE b = "15 - 19 Years" -> 2
          [] b = "20 - 24 Years" -> 10
          [] b = "25 - 29 Years" -> 20
          [] b = "30 - 34 Years" -> 30
          [] b = "35 - 39 Years" -> 20
          [] b = "40 - 44 Years" -> 50
          [] OTHER               -> 1 ]

\* The first observed year and the candidates for the latest observed year.
ObservedFrom == CurrentYear - 5
LatestObserved == { CurrentYear - 3, CurrentYear - 1, CurrentYear + 2 }

\* A fertility file: every bin, the years ObservedFrom..latest, each rate
\* changing by slope per year.
FertilityFile(latest, slope) ==
    [ c \in { Str(y) : y \in ObservedFrom..latest } |->
        [ b \in SeqToSet(all_mother_ages) |->
            BaseRate[b] + slope * (IntOf(c) - ObservedFrom) ] ]

FertilityFiles ==
    { FertilityFile(latest, slope) :
        latest \in LatestObserved, slope \in 0..MaxRateSlope }

Project(subzone, year, units) ==
    [ Subzone |-> subzone, Year |-> year, Units |-> units ]

\* BTO files: lists of projects.
BTOFiles ==
    { << Project(Lab_A, CurrentYear - 1, 200) >>,
      << Project(Lab_A, CurrentYear - 4, 100),
         Project(Lab_A, CurrentYear - 1, 100),
         Project(Lab_B, CurrentYear + 1, 300) >>,
      << Project(Lab_A_sp, CurrentYear - 1, 100),
         Project(Lab_A, CurrentYear, 200) >>,
      << Project(Lab_B, CurrentYear - 1, 48),
         Project(Lab_A, CurrentYear + MaxForecastYears + 1, 500) >> }

Women(subzone, age_bin, count) ==
    [ Subzone |-> subzone, AgeBin |-> age_bin, Count |-> count ]

\* Resident tables as ExistingResidentsProcessor.run returns them: one row
\* per (subzone, age bin).
WomenTables ==
    { << Women(Lab_A, "25 - 29 Years", 100),
         Women(Lab_A, "30 - 34 Years", 40) >>,
      << Women(Lab_A, "15 - 19 Years", 30),
         Women(Lab_B, "40 - 44 Years", 1000),
         Women(Lab_B, "45 - 49 Years", 0) >>,
      << Women(Lab_A_sp, "35 - 39 Years", 250),
         Women(Lab_C, "20 - 24 Years", 7) >> }

\* A row of the cleaned resident data: female residents of one age.
Resident(subzone, age, count) ==
    [ Subzone |-> subzone, Age |-> age, Count |-> count ]

\* Resident files after clean_existing_residents_data. Some hold several
\* ages of one bin, ages outside every bin, labels with whitespace.
ResidentFiles ==
    { << Resident(Lab_A, 30, 40), Resident(Lab_A, 25, 60),
         Resident(Lab_A, 14, 9), Resident(Lab_A, 27, 40) >>,
      << Resident(Lab_B, 40, 1000), Resident(Lab_A, 15, 30),
         Resident(Lab_B, 49, 0) >>,
      << Resident(Lab_C, 20, 7), Resident(Lab_A_sp, 35, 250),
         Resident(Lab_C, 50, 3) >> }

\* The raw listing of centres, Config.raw_preschool_data_path.
RawPreschoolPath == "data/ListingofCentres.csv"

\* The path PreschoolProcessor.run writes the geocoded listing to.
WrittenPreschoolPath == "data/preschools_data_processed.csv"

\* Another place a processed listing can be configured to live.
OtherPreschoolPath == "cache/preschools.csv"

\* get_latlon_from_postal: the place the coordinates of a postal code point
\* at: 1 lies in A, 2 in B, 3 in C, 4 is not found (no coordinates).
PostalCodes == 1..4
PlaceOfPostal ==
    (1 :> << Lab_A >>) @@ (2 :> << Lab_B >>) @@ (3 :> << Lab_C >>)
    @@ (4 :> << >>)

\* A raw listing, one postal code per centre: in_a centres in A, in_b in B,
\* in_c in C and not_found centres whose postal code is not found.
ListingOf(in_a, in_b, in_c, not_found) ==
    [ i \in 1..(in_a + in_b + in_c + not_found) |->
        IF i <= in_a THEN 1
        ELSE IF i <= in_a + in_b THEN 2
        ELSE IF i <= in_a + in_b + in_c THEN 3
        ELSE 4 ]

\* get_preschool_latlon: the listing with each centre's coordinates, here
\* the place they point at, or none.
get_preschool_latlon(preschool_data) ==
    [ i \in 1..Len(preschool_data) |->
        [ postal_code |-> preschool_data[i],
          location |-> PlaceOfPostal[preschool_data[i]] ] ]

\* count_childcare_centres_per_subzone: the subzone frame with its
\* num_preschools column: centres per subzone polygon; a centre without
\* coordinates, or outside every polygon, is counted nowhere.
count_childcare_centres_per_subzone(subzones, preschool_data) ==
    [ subzone \in DOMAIN subzones |->
        << Cardinality({ i \in 1..Len(preschool_data) :
                           preschool_data[i].location = << subzone >> }) >> ]

\* The subzone frame as read from the subzone file: no count column yet.
SubzoneFrame(polygons) == [ subzone \in polygons |-> << >> ]

\* The file system with `content` written at `path`.
WriteFile(fs, path, content) ==
    [ q \in DOMAIN fs \cup { path } |-> IF q = path THEN content ELSE fs[q] ]

\* Mutant of PreschoolProcessorLoad: the raw listing is always loaded.
PreschoolProcessorLoadAlwaysRaw(fs, path) ==
    [ raw_preschool_data |-> << fs[RawPreschoolPath] >>,
      processed_preschool_data |-> << >> ]

\* PreschoolProcessor.__init__, lines 38-52: the processed file is loaded
\* when a path is configured and the file exists, the raw listing otherwise.
\* An optional value (None in the code) is << >>, a present one << value >>.
PreschoolProcessorLoad(fs, path) ==
    IF path # << >> /\ path[1] \in DOMAIN fs
    THEN [ raw_preschool_data |-> << >>,
           processed_preschool_data |-> << fs[path[1]] >> ]
    ELSE [ raw_preschool_data |-> << fs[RawPreschoolPath] >>,
           processed_preschool_data |-> << >> ]

\* What a Forecaster is constructed on for its preschool side: the subzone
\* polygons, the files on disk and Config.processed_preschool_data_path.
\* No processed path; the default path with no file there yet; the default
\* path with a file an earlier run saved from another listing.
PreschoolInputs ==
    { [ polygons |-> { Lab_A },
        files |-> (RawPreschoolPath :> ListingOf(3, 0, 0, 1)),
        processed_preschool_data_path |-> << >> ],
      [ polygons |-> { Lab_A, Lab_B, Lab_C },
        files |-> (RawPreschoolPath :> ListingOf(4, 0, 50, 1)),
        processed_preschool_data_path |-> << WrittenPreschoolPath >> ],
      [ polygons |-> { Lab_B },
        files |-> (RawPreschoolPath :> ListingOf(1, 3, 0, 0)) @@
                  (WrittenPreschoolPath :>
                      get_preschool_latlon(ListingOf(1, 2, 0, 0))),
        processed_preschool_data_path |-> << WrittenPreschoolPath >> ] }

\* The preschool side of the direct calls of Forecaster's methods.
CallPreschoolInput ==
    [ polygons |-> { Lab_A },
      files |-> (RawPreschoolPath :> ListingOf(3, 0, 0, 1)),
      processed_preschool_data_path |-> << >> ]

-----------------------------------------------------------------------------
(* State. *)

VARIABLES
    pc,                              \* position in the run
    min_preschool_age,               \* Config / FertilityProcessor
    max_preschool_age,               \* Config / FertilityProcessor
    preschool_capacity,              \* Config
    forecast_years,                  \* Forecaster.forecast_years
    fertility_file,                  \* the fertility CSV, as read at construction
    fertility_data,                  \* FertilityProcessor.fertility_data
    bto_data,                        \* BTOProcessor.bto_data
    birth_years,                     \* FertilityProcessor.birth_years
    bto_birth_rates,                 \* run: local
    fertility_rates_by_age,          \* run: local
    bto_units_by_subzone,            \* run: local
    existing_residents_in_subzones,  \* ExistingResidentsProcessor: cleaned rows
    existing_women_by_age_bin,       \* run: local
    results_by_year,                 \* calculate_preschoolers_all_years: local
    target_year,                     \* the last per-year call: argument
    birth_years_for_target,          \* the last per-year call: the window
    existing_accumulated,            \* ... existing side before astype(int)
    bto_accumulated,                 \* ... new-housing side before astype(int)
    existing_preschoolers,           \* ... existing side returned
    bto_preschoolers,                \* ... new-housing side returned
    forecasted_num_preschoolers,     \* run: local
    needed_quotient,                 \* run: (frame / capacity).round(0)
    forecasted_preschools_needed,    \* run: local
    existing_preschools_by_subzone,  \* run: local
    preschool_gap,                   \* run: local
    files,                           \* the preschool files on disk: path -> content
    processed_preschool_data_path,   \* Config / PreschoolProcessor.__init__
    raw_preschool_data,              \* PreschoolProcessor.raw_preschool_data
    processed_preschool_data,        \* PreschoolProcessor.processed_preschool_data
    subzone_data,                    \* PreschoolProcessor.subzone_data
    float_truncations,               \* what astype(int) gave for each float sum
    calls,                           \* per-year calls evaluated out of order: locals
    stored_results,                  \* their results_by_year, in insertion order
    interleaved_frame                \* their preschoolers_df

\* The preschool files and the PreschoolProcessor's view of them.
preschool_vars == << files, processed_preschool_data_path,
                     raw_preschool_data, processed_preschool_data,
                     subzone_data >>

\* The configuration and the forecast inputs it names.
input_vars == << min_preschool_age, max_preschool_age, preschool_capacity,
                 forecast_years, fertility_file, bto_data >>

\* The configuration, the inputs and the preschool processor.
config_vars == << input_vars, preschool_vars >>
fertility_vars == << fertility_data, birth_years, bto_birth_rates,
                     fertility_rates_by_age >>
table_vars == << bto_units_by_subzone, existing_residents_in_subzones,
                 existing_women_by_age_bin >>
call_vars == << target_year, birth_years_for_target, existing_accumulated,
                bto_accumulated, existing_preschoolers, bto_preschoolers >>
result_vars == << results_by_year, forecasted_num_preschoolers,
                  needed_quotient, forecasted_preschools_needed,
                  existing_preschools_by_subzone, preschool_gap >>

\* The per-year calls of an evaluation in another order than the loop's.
worker_vars == << calls, stored_results, interleaved_frame >>

\* The same, and the record of the float truncations made so far.
replay_vars == << worker_vars, float_truncations >>

vars == << pc, config_vars, fertility_vars, table_vars, call_vars,
           result_vars, replay_vars >>

\* No per-year call has truncated a sum, none is evaluated out of order.
ReplayNotStarted ==
    /\ float_truncations = << >>
    /\ calls = << >>
    /\ stored_results = << >>
    /\ interleaved_frame = << >>

\* No PreschoolProcessor has been constructed (a processor used alone).
PreschoolFilesNotRead ==
    /\ files = << >>
    /\ processed_preschool_data_path = << >>
    /\ raw_preschool_data = << >>
    /\ processed_preschool_data = << >>
    /\ subzone_data = << >>

\* Forecaster.__init__, lines 70-75: the PreschoolProcessor has been
\* constructed on the files and the path of `input`.
PreschoolProcessorConstructed(input) ==
    LET loaded == PreschoolProcessorLoad(input.files,
                                         input.processed_preschool_data_path)
    IN  /\ files = input.files
        /\ processed_preschool_data_path = input.processed_preschool_data_path
        /\ raw_preschool_data = loaded.raw_preschool_data
        /\ processed_preschool_data = loaded.processed_preschool_data
        /\ subzone_data = SubzoneFrame(input.polygons)

\* Nothing computed yet.
NotStarted ==
    /\ birth_years = << >>
    /\ bto_birth_rates = << >>
    /\ fertility_rates_by_age = << >>
    /\ bto_units_by_subzone = << >>
    /\ existing_residents_in_subzones = << >>
    /\ existing_women_by_age_bin = << >>
    /\ results_by_year = << >>
    /\ target_year = 0
    /\ birth_years_for_target = << >>
    /\ existing_accumulated = << >>
    /\ bto_accumulated = << >>
    /\ existing_preschoolers = << >>
    /\ bto_preschoolers = << >>
    /\ forecasted_num_preschoolers = << >>
    /\ needed_quotient = << >>
    /\ forecasted_preschools_needed = << >>
    /\ existing_preschools_by_subzone = << >>
    /\ preschool_gap = << >>
    /\ ReplayNotStarted

\* Forecaster.__init__: the state after construction.
Init ==
    /\ pc = "fertility_run"
    /\ \E ages \in AgeConfigs :
          /\ min_preschool_age = ages[1]
          /\ max_preschool_age = ages[2]
    /\ preschool_capacity \in 0..MaxCapacity
    /\ \E num_forecast_years \in 1..MaxForecastYears :
          forecast_years =
              Range(CurrentYear + 1, CurrentYear + 1 + num_forecast_years)
    /\ fertility_file \in FertilityFiles
    /\ fertility_data = fertility_file
    /\ bto_data \in BTOFiles
    /\ \E input \in PreschoolInputs : PreschoolProcessorConstructed(input)
    /\ NotStarted

-----------------------------------------------------------------------------
(* Forecaster.run, step by step. *)

\* line 393: fertility_processor.run(forecast_years)
FertilityProcessorRun ==
    /\ pc = "fertility_run"
    /\ LET years == birth_years_for_multiple_forecast_years(
                        forecast_years, min_preschool_age, max_preschool_age)
           table == extrapolate_births(fertility_data, years)
       IN  /\ birth_years' = years
           /\ fertility_data' = table
           /\ IF LocOk(table, mother_ages, years)
              THEN /\ bto_birth_rates' =
                          get_birth_rates_for_forecast_years(table, years)
                   /\ pc' = "extrapolate_again"
              ELSE /\ bto_birth_rates' = bto_birth_rates
                   /\ pc' = "KeyError"
    /\ UNCHANGED << config_vars, replay_vars, fertility_rates_by_age, table_vars,
                    call_vars, result_vars >>

\* lines 396-405: the window and the extrapolation, a second time
ExtrapolateAgain ==
    /\ pc = "extrapolate_again"
    /\ LET years == birth_years_for_multiple_forecast_years(
                        forecast_years, min_preschool_age, max_preschool_age)
       IN  /\ birth_years' = years
           /\ fertility_data' = extrapolate_births(fertility_data, years)
    /\ pc' = "select_rates"
    /\ UNCHANGED << config_vars, replay_vars, bto_birth_rates, fertility_rates_by_age,
                    table_vars, call_vars, result_vars >>

\* lines 406-409: fertility_data.loc[all_mother_ages, birth year labels]
SelectRates ==
    /\ pc = "select_rates"
    /\ IF LocOk(fertility_data, all_mother_ages, birth_years)
       THEN /\ fertility_rates_by_age' =
                  [ c \in { Str(y) : y \in SeqToSet(birth_years) } |->
                      [ b \in SeqToSet(all_mother_ages) |->
                          fertility_data[c][b] ] ]
            /\ pc' = "bto_run"
       ELSE /\ fertility_rates_by_age' = fertility_rates_by_age
            /\ pc' = "KeyError"
    /\ UNCHANGED << config_vars, replay_vars, fertility_data, birth_years, bto_birth_rates,
                    table_vars, call_vars, result_vars >>

\* line 412: bto_processor.run(forecast_years)
BTOProcessorRun ==
    /\ pc = "bto_run"
    /\ bto_units_by_subzone' =
          get_cumulative_bto_units_by_subzone(bto_data, forecast_years)
    /\ pc' = "residents_run"
    /\ UNCHANGED << config_vars, replay_vars, fertility_vars,
                    existing_residents_in_subzones, existing_women_by_age_bin,
                    call_vars, result_vars >>

\* line 413: existing_residents_processor.run()
ExistingResidentsRun ==
    /\ pc = "residents_run"
    /\ \E file \in ResidentFiles :
          /\ existing_residents_in_subzones' = file
          /\ existing_women_by_age_bin' = aggregate_women_by_age_bin(file)
    /\ pc' = "for_year"
    /\ UNCHANGED << config_vars, replay_vars, fertility_vars, bto_units_by_subzone,
                    call_vars, result_vars >>

\* The window of a per-year call: both estimators ask the fertility
\* processor for it (lines 100-102 and 176-178).
WindowForCall(forecast_year) ==
    birth_years_for_single_forecast_year(
        forecast_year, min_preschool_age, max_preschool_age)

\* calculate_preschoolers_for_year(forecast_year, ...) and the store of its
\* result (lines 316-325)
calculate_preschoolers_for_year(forecast_year) ==
    /\ LET window == WindowForCall(forecast_year)
           existing_acc == ExistingAccumulated(
                         window, fertility_rates_by_age,
                         existing_women_by_age_bin)
       IN  /\ target_year' = forecast_year
           /\ birth_years_for_target' = window
           /\ existing_accumulated' = existing_acc
           /\ existing_preschoolers' \in
                  { series \in calculate_existing_preschoolers_for_year(
                                  window, fertility_rates_by_age,
                                  existing_women_by_age_bin) :
                      series \in AgreeingTruncations(
                                    float_truncations, "existing",
                                    forecast_year, existing_acc, ExistingDen) }
           /\ IF BTOLookupOk(bto_units_by_subzone, bto_birth_rates, window)
              THEN /\ bto_accumulated' = BTOAccumulated(
                             window, bto_birth_rates,
                             bto_units_by_subzone, min_preschool_age)
                   /\ bto_preschoolers' \in
                          { series \in calculate_bto_preschoolers_for_year(
                                          window, bto_birth_rates,
                                          bto_units_by_subzone,
                                          min_preschool_age) :
                              series \in AgreeingTruncations(
                                            float_truncations, "bto",
                                            forecast_year, bto_accumulated',
                                            BTODen) }
                   /\ float_truncations' =
                          RecordTruncations(
                              RecordTruncations(
                                  float_truncations, "existing", forecast_year,
                                  existing_acc, existing_preschoolers'),
                              "bto", forecast_year, bto_accumulated',
                              bto_preschoolers')
                   /\ results_by_year' =
                          [ y \in DOMAIN results_by_year \cup {forecast_year} |->
                              IF y = forecast_year
                              THEN CombinePreschoolers(existing_preschoolers',
                                                       bto_preschoolers')
                              ELSE results_by_year[y] ]
                   /\ pc' = "for_year"
              ELSE /\ bto_accumulated' = << >>
                   /\ bto_preschoolers' = << >>
                   /\ float_truncations' =
                          RecordTruncations(
                              float_truncations, "existing", forecast_year,
                              existing_acc, existing_preschoolers')
                   /\ results_by_year' = results_by_year
                   /\ pc' = "KeyError"
    /\ UNCHANGED << config_vars, worker_vars, fertility_vars, table_vars,
                    forecasted_num_preschoolers, needed_quotient,
                    forecasted_preschools_needed,
                    existing_preschools_by_subzone, preschool_gap >>

\* lines 312-325: one iteration of the loop of
\* calculate_preschoolers_all_years over forecast_years
CalculatePreschoolersForYear ==
    /\ pc = "for_year"
    /\ Cardinality(DOMAIN results_by_year) < Len(forecast_years)
    /\ calculate_preschoolers_for_year(
          forecast_years[Cardinality(DOMAIN results_by_year) + 1])

\* lines 327-339: the frame of all years
BuildFrame ==
    /\ pc = "for_year"
    /\ Cardinality(DOMAIN results_by_year) = Len(forecast_years)
    /\ forecasted_num_preschoolers' = PreschoolersFrame(results_by_year)
    /\ pc' = "needed"
    /\ UNCHANGED << config_vars, replay_vars, fertility_vars, table_vars, call_vars,
                    results_by_year, needed_quotient,
                    forecasted_preschools_needed,
                    existing_preschools_by_subzone, preschool_gap >>

\* lines 423-428: preschools needed. No line of Config or of run looks at
\* the capacity before: with capacity 0 the division yields inf and nan
\* cells, and astype(int) raises pandas' IntCastingNaNError on them.
NeededConversion ==
    /\ pc = "needed"
    /\ LET quotient == QuotientRounded(forecasted_num_preschoolers,
                                       preschool_capacity)
       IN  /\ needed_quotient' = quotient
           /\ IF NonFiniteCells(quotient) = {}
              THEN /\ forecasted_preschools_needed' =
                          PreschoolsNeeded(forecasted_num_preschoolers,
                                           preschool_capacity)
                   /\ pc' = "preschool_run"
              ELSE /\ forecasted_preschools_needed' =
                          forecasted_preschools_needed
                   /\ pc' = "IntCastingNaNError"
    /\ UNCHANGED << config_vars, replay_vars, fertility_vars, table_vars, call_vars,
                    results_by_year, forecasted_num_preschoolers,
                    existing_preschools_by_subzone, preschool_gap >>

\* line 431, preschool_processor.run(), lines 209-211: without processed
\* data the raw listing is geocoded, one request per centre; the
\* coordinates are added to raw_preschool_data itself. The requests touch
\* neither the disk nor any other attribute.
PreschoolGeocode ==
    /\ pc = "preschool_run"
    /\ processed_preschool_data = << >>
    /\ raw_preschool_data' = << get_preschool_latlon(raw_preschool_data[1]) >>
    /\ pc' = "preschool_save"
    /\ UNCHANGED << input_vars, replay_vars, files, processed_preschool_data_path,
                    processed_preschool_data, subzone_data, fertility_vars,
                    table_vars, call_vars, result_vars >>

\* preschool_processor.run(), line 213: the geocoded listing is saved at
\* the fixed path.
PreschoolSave ==
    /\ pc = "preschool_save"
    /\ files' = WriteFile(files, WrittenPreschoolPath, raw_preschool_data[1])
    /\ pc' = "preschool_count"
    /\ UNCHANGED << input_vars, replay_vars, processed_preschool_data_path,
                    raw_preschool_data, processed_preschool_data,
                    subzone_data, fertility_vars, table_vars, call_vars,
                    result_vars >>

\* preschool_processor.run(), lines 215-231: the processed data, if loaded,
\* is used as it is; the centres are counted into the subzone frame, which
\* is returned indexed by subzone.
PreschoolCount ==
    /\ \/ pc = "preschool_count"
       \/ pc = "preschool_run" /\ processed_preschool_data # << >>
    /\ LET preschool_data ==
               IF processed_preschool_data = << >>
               THEN raw_preschool_data[1]
               ELSE processed_preschool_data[1]
           subzone_with_counts ==
               count_childcare_centres_per_subzone(subzone_data,
                                                   preschool_data)
       IN  /\ subzone_data' = subzone_with_counts
           /\ existing_preschools_by_subzone' =
                 [ subzone \in DOMAIN subzone_with_counts |->
                     subzone_with_counts[subzone][1] ]
    /\ pc' = "gap"
    /\ UNCHANGED << input_vars, replay_vars, files, processed_preschool_data_path,
                    raw_preschool_data, processed_preschool_data,
                    fertility_vars, table_vars, call_vars,
                    results_by_year, forecasted_num_preschoolers,
                    needed_quotient, forecasted_preschools_needed,
                    preschool_gap >>

\* The gap step without the copy of line 361: the gap is written into the
\* needed matrix that was passed in.
CalculatePreschoolGapInPlace ==
    /\ pc = "gap"
    /\ preschool_gap' =
          calculate_preschool_gap(existing_preschools_by_subzone,
                                  forecasted_preschools_needed)
    /\ forecasted_preschools_needed' = preschool_gap'
    /\ pc' = "done"
    /\ UNCHANGED << config_vars, replay_vars, fertility_vars, table_vars, call_vars,
                    results_by_year, forecasted_num_preschoolers,
                    needed_quotient, existing_preschools_by_subzone >>

\* lines 432-441: the gap, and the return
CalculatePreschoolGap ==
    /\ pc = "gap"
    /\ preschool_gap' =
          calculate_preschool_gap(existing_preschools_by_subzone,
                                  forecasted_preschools_needed)
    /\ pc' = "done"
    /\ UNCHANGED << config_vars, replay_vars, fertility_vars, table_vars, call_vars,
                    results_by_year, forecasted_num_preschoolers,
                    needed_quotient, forecasted_preschools_needed,
                    existing_preschools_by_subzone >>

Next ==
    \/ FertilityProcessorRun
    \/ ExtrapolateAgain
    \/ SelectRates
    \/ BTOProcessorRun
    \/ ExistingResidentsRun
    \/ CalculatePreschoolersForYear
    \/ BuildFrame
    \/ NeededConversion
    \/ PreschoolGeocode
    \/ PreschoolSave
    \/ PreschoolCount
    \/ CalculatePreschoolGap

Spec == Init /\ [][Next]_vars

-----------------------------------------------------------------------------
(* Calls of birth_years_for_single_forecast_year on a FertilityProcessor    *)
(* built with any pair of ages min <= max.                                  *)

InitWindow ==
    /\ pc = "window_call"
    /\ min_preschool_age \in 0..MaxAgeMonths
    /\ max_preschool_age \in min_preschool_age..MaxAgeMonths
    /\ preschool_capacity = 1
    /\ forecast_years = << >>
    /\ fertility_file = FertilityFile(CurrentYear, 0)
    /\ fertility_data = fertility_file
    /\ bto_data = << >>
    /\ PreschoolFilesNotRead
    /\ NotStarted

\* birth_years_for_single_forecast_year(forecast_year)
SingleYearWindowCall ==
    /\ pc \in { "window_call", "window_called" }
    /\ \E forecast_year \in
            (CurrentYear + 1)..(CurrentYear + MaxForecastYears) :
          /\ target_year' = forecast_year
          /\ birth_years_for_target' =
                birth_years_for_single_forecast_year(
                    forecast_year, min_preschool_age, max_preschool_age)
    /\ pc' = "window_called"
    /\ UNCHANGED << config_vars, replay_vars, fertility_vars, table_vars,
                    existing_accumulated, bto_accumulated,
                    existing_preschoolers, bto_preschoolers, result_vars >>

NextWindow == SingleYearWindowCall

SpecWindow == InitWindow /\ [][NextWindow]_vars

-----------------------------------------------------------------------------
(* Calls of birth_years_for_multiple_forecast_years with any non-empty list *)
(* of forecast years, consecutive or not, in any order.                     *)

\* The ages of the calls: whole half-years, min <= max.
HalfYearAges == { m \in 0..MaxAgeMonths : m % 6 = 0 }

\* The lists of forecast years of the calls.
ForecastYearLists ==
    UNION { [ 1..n -> (CurrentYear + 1)..(CurrentYear + MaxYearSpan) ] :
              n \in 1..MaxListLen }

InitMulti ==
    /\ pc = "multi_call"
    /\ min_preschool_age \in HalfYearAges
    /\ max_preschool_age \in { m \in HalfYearAges : m >= min_preschool_age }
    /\ preschool_capacity = 1
    /\ forecast_years \in ForecastYearLists
    /\ fertility_file = FertilityFile(CurrentYear, 0)
    /\ fertility_data = fertility_file
    /\ bto_data = << >>
    /\ PreschoolFilesNotRead
    /\ NotStarted

\* birth_years_for_multiple_forecast_years(forecast_years)
MultiYearWindowCall ==
    /\ pc = "multi_call"
    /\ birth_years' = birth_years_for_multiple_forecast_years(
                          forecast_years, min_preschool_age,
                          max_preschool_age)
    /\ pc' = "multi_called"
    /\ UNCHANGED << config_vars, replay_vars, fertility_data, bto_birth_rates,
                    fertility_rates_by_age, table_vars, call_vars,
                    result_vars >>

NextMulti == MultiYearWindowCall

SpecMulti == InitMulti /\ [][NextMulti]_vars

-----------------------------------------------------------------------------
(* The needed conversion of Forecaster.run on a one-cell forecast frame,    *)
(* for any count and any capacity >= 1.                                     *)

InitNeeded ==
    /\ pc = "needed"
    /\ min_preschool_age = 18
    /\ max_preschool_age = 72
    /\ preschool_capacity \in 1..MaxCallCapacity
    /\ forecast_years = << CurrentYear + 1 >>
    /\ fertility_file = FertilityFile(CurrentYear, 0)
    /\ fertility_data = fertility_file
    /\ bto_data = << >>
    /\ PreschoolProcessorConstructed(CallPreschoolInput)
    /\ birth_years = << >>
    /\ bto_birth_rates = << >>
    /\ fertility_rates_by_age = << >>
    /\ bto_units_by_subzone = << >>
    /\ existing_residents_in_subzones = << >>
    /\ existing_women_by_age_bin = << >>
    /\ target_year = 0
    /\ birth_years_for_target = << >>
    /\ existing_accumulated = << >>
    /\ bto_accumulated = << >>
    /\ existing_preschoolers = << >>
    /\ bto_preschoolers = << >>
    /\ \E count \in 0..MaxCount :
          /\ results_by_year = (CurrentYear + 1 :> (Lab_A :> count))
          /\ forecasted_num_preschoolers = results_by_year
    /\ needed_quotient = << >>
    /\ forecasted_preschools_needed = << >>
    /\ existing_preschools_by_subzone = << >>
    /\ preschool_gap = << >>
    /\ ReplayNotStarted

NextNeeded == NeededConversion

SpecNeeded == InitNeeded /\ [][NextNeeded]_vars


-----------------------------------------------------------------------------
(* Direct calls of calculate_preschoolers_all_years, with tables that need  *)
(* not come out of the processors: rate tables that lack columns or rows,   *)
(* birth-rate series that lack years, resident tables with repeated rows.   *)

\* The years a window of the calls can hold.
CallYears == ObservedFrom..(CurrentYear + MaxForecastYears)

\* A rate table with the given columns and rows.
RateTable(years, bins, rate) ==
    [ c \in { Str(y) : y \in years } |-> [ b \in bins |-> rate[b] ] ]

\* An averaged birth-rate series over the given years (numerators over
\* BirthRateDen).
BirthRateSeries(years, rate) ==
    [ c \in { Str(y) : y \in years } |-> SumRates(rate, mother_ages, 1) ]

\* The sets of columns and of rows of the rate tables of the calls.
RateColumnSets ==
    { CallYears, CallYears \ { CurrentYear - 1 }, { CurrentYear } }
RateBinSets ==
    { SeqToSet(all_mother_ages), SeqToSet(mother_ages),
      { "25 - 29 Years", "40 - 44 Years" } }

\* The sets of years of the birth-rate series of the calls.
BirthRateYearSets == { CallYears, CallYears \ { CurrentYear - 1 } }

\* The resident tables of the calls: those of the processor, and one with
\* two rows for one (subzone, age bin).
CallWomenTables ==
    WomenTables \cup
    { << Women(Lab_A, "25 - 29 Years", 60),
         Women(Lab_A, "25 - 29 Years", 40) >> }

\* The state before the call, given the ages, the numbers of forecast
\* years and the tables.
CallStateFor(age_configs, nums_forecast_years, rate_tables, birth_rate_series, housing_files, women_tables) ==
    /\ pc = "for_year"
    /\ \E ages \in age_configs :
          /\ min_preschool_age = ages[1]
          /\ max_preschool_age = ages[2]
    /\ preschool_capacity = 1
    /\ \E num_forecast_years \in nums_forecast_years :
          forecast_years =
              Range(CurrentYear + 1, CurrentYear + 1 + num_forecast_years)
    /\ fertility_file = FertilityFile(CurrentYear, 0)
    /\ fertility_data = fertility_file
    /\ bto_data \in housing_files
    /\ PreschoolProcessorConstructed(CallPreschoolInput)
    /\ birth_years = << >>
    /\ bto_birth_rates \in birth_rate_series
    /\ fertility_rates_by_age \in rate_tables
    /\ bto_units_by_subzone =
          get_cumulative_bto_units_by_subzone(bto_data, forecast_years)
    /\ existing_residents_in_subzones = << >>
    /\ existing_women_by_age_bin \in women_tables
    /\ results_by_year = << >>
    /\ target_year = 0
    /\ birth_years_for_target = << >>
    /\ existing_accumulated = << >>
    /\ bto_accumulated = << >>
    /\ existing_preschoolers = << >>
    /\ bto_preschoolers = << >>
    /\ forecasted_num_preschoolers = << >>
    /\ needed_quotient = << >>
    /\ forecasted_preschools_needed = << >>
    /\ existing_preschools_by_subzone = << >>
    /\ preschool_gap = << >>
    /\ ReplayNotStarted

\* The state before the call, given the tables.
CallState(rate_tables, birth_rate_series, housing_files, women_tables) ==
    CallStateFor(AgeConfigs, 1..MaxForecastYears, rate_tables,
                 birth_rate_series, housing_files, women_tables)

InitEstimator ==
    CallState({ RateTable(years, bins, BaseRate) :
                  years \in RateColumnSets, bins \in RateBinSets },
              { BirthRateSeries(years, BaseRate) :
                  years \in BirthRateYearSets },
              BTOFiles, CallWomenTables)

NextEstimator == CalculatePreschoolersForYear \/ BuildFrame

SpecEstimator == InitEstimator /\ [][NextEstimator]_vars

-----------------------------------------------------------------------------
(* The same calls with negative numbers in the tables: a negative women     *)
(* count, negative rates, negative unit counts.                             *)

\* Rates of which one, or all, are negative.
NegativeRates ==
    { [ b \in DOMAIN BaseRate |->
          IF b = "40 - 44 Years" THEN 0 - BaseRate[b] ELSE BaseRate[b] ],
      [ b \in DOMAIN BaseRate |-> 0 - BaseRate[b] ] }

NegativeWomenTables ==
    { << Women(Lab_A, "25 - 29 Years", 0 - 100),
         Women(Lab_A, "30 - 34 Years", 40) >>,
      << Women(Lab_B, "40 - 44 Years", 1000) >> }

NegativeBTOFiles ==
    { << Project(Lab_A, CurrentYear - 1, 0 - 200) >>,
      << Project(Lab_A, CurrentYear - 4, 100),
         Project(Lab_B, CurrentYear - 1, 0 - 300) >> }

InitNegative ==
    CallState({ RateTable(CallYears, SeqToSet(all_mother_ages), rate) :
                  rate \in NegativeRates \cup { BaseRate } },
              { BirthRateSeries(CallYears, rate) :
                  rate \in NegativeRates \cup { BaseRate } },
              NegativeBTOFiles, NegativeWomenTables)

SpecNegative == InitNegative /\ [][NextEstimator]_vars

-----------------------------------------------------------------------------
(* The per-year calls of calculate_preschoolers_all_years evaluated again,   *)
(* in any order and interleaved, next to the loop's own results.  The loop  *)
(* runs first (CalculatePreschoolersForYear, BuildFrame); then one call of  *)
(* calculate_preschoolers_for_year per forecast year runs on the same four  *)
(* tables, each a process of its own whose steps are the iterations of the  *)
(* estimators' loops over the birth years.  A call's locals are a record of *)
(* `calls`; what the calls return is stored in `stored_results` as it       *)
(* comes, and the frame of these results is `interleaved_frame`.            *)

\* pd.Series(0.0, index=...), a variant that keeps one series on the
\* Forecaster: a call that begins while another is accumulating goes on
\* from the other's sums.
SubzoneSeriesKeptOnSelf(index) ==
    LET running == { y \in DOMAIN calls :
                       calls[y].phase \in { "existing", "bto" } }
    IN  IF running = {}
        THEN [ subzone \in index |-> 0 ]
        ELSE LET other == CHOOSE y \in running : TRUE
                 kept == calls[other].subzone_preschoolers
             IN  [ subzone \in index |->
                     IF subzone \in DOMAIN kept THEN kept[subzone] ELSE 0 ]

\* subzone_preschoolers = pd.Series(0.0, index=...), lines 108 and 181: a
\* new series of zeros, local to the call.
NewSubzoneSeries(index) == [ subzone \in index |-> 0 ]

\* (min_preschool_age, max_preschool_age) of the interleaved calls: windows
\* of three and of two birth years, with and without the partial-year
\* factor of the new-housing estimator.
InterleavedAgeConfigs == { << 6, 30 >>, << 12, 24 >> }

\* The fertility table of the interleaved calls: a column for every birth
\* year of the calls, every rate rising by one per year, so that no two
\* windows give the same sums.
InterleavedFertilityTable ==
    FertilityFile(CurrentYear + InterleavedYears, 1)

\* New-housing files of the interleaved calls.
InterleavedBTOFiles ==
    { << Project(Lab_A, CurrentYear - 4, 130),
         Project(Lab_A, CurrentYear - 1, 60),
         Project(Lab_B, CurrentYear + 1, 310) >>,
      << Project(Lab_B, CurrentYear - 1, 48),
         Project(Lab_A, CurrentYear + 2, 1000) >> }

\* The resident table of the interleaved calls.
InterleavedWomenTable ==
    << Women(Lab_A, "15 - 19 Years", 30),
       Women(Lab_A, "25 - 29 Years", 101),
       Women(Lab_B, "40 - 44 Years", 1001),
       Women(Lab_B, "45 - 49 Years", 0) >>

InitInterleaved ==
    CallStateFor(InterleavedAgeConfigs, { InterleavedYears },
                 { InterleavedFertilityTable },
                 { get_birth_rates_for_forecast_years(
                       InterleavedFertilityTable,
                       Range(ObservedFrom, CurrentYear + InterleavedYears + 1)) },
                 InterleavedBTOFiles, { InterleavedWomenTable })

\* `calls` with the locals of the call for forecast_year set.
WithCall(forecast_year, locals) ==
    [ y \in DOMAIN calls \cup { forecast_year } |->
        IF y = forecast_year THEN locals ELSE calls[y] ]

\* The forecast years whose calls are running.
RunningCalls ==
    { y \in DOMAIN calls :
        calls[y].phase \in { "existing", "existing_returned", "bto" } }

\* calculate_preschoolers_for_year(forecast_year, ...) is called and enters
\* calculate_existing_preschoolers_for_year: lines 99-108.
\* began_during_another notes whether another call was running then.
InterleavedCallBegins ==
    /\ pc = "needed"
    /\ \E forecast_year \in SeqToSet(forecast_years) \ DOMAIN calls :
          calls' = WithCall(forecast_year,
              [ phase |-> "existing",
                birth_years_for_target |-> WindowForCall(forecast_year),
                i |-> 1,
                subzone_preschoolers |->
                    NewSubzoneSeries(
                        { existing_women_by_age_bin[k].Subzone :
                            k \in 1..Len(existing_women_by_age_bin) }),
                existing_preschoolers |-> << >>,
                began_during_another |-> RunningCalls # {} ])
    /\ UNCHANGED << pc, config_vars, fertility_vars, table_vars, call_vars,
                    result_vars, stored_results, interleaved_frame,
                    float_truncations >>

\* lines 110-143: one iteration of the loop over birth_years_for_target
InterleavedExistingBirthYear ==
    /\ \E forecast_year \in DOMAIN calls :
          LET call == calls[forecast_year]
              window == call.birth_years_for_target
          IN  /\ call.phase = "existing"
              /\ call.i <= Len(window)
              /\ calls' = WithCall(forecast_year,
                    [ call EXCEPT
                        !.i = call.i + 1,
                        !.subzone_preschoolers =
                            [ subzone \in DOMAIN call.subzone_preschoolers |->
                                call.subzone_preschoolers[subzone]
                                + ExistingYearTerm(
                                      existing_women_by_age_bin, subzone,
                                      fertility_rates_by_age, window,
                                      window[call.i]) ] ])
    /\ UNCHANGED << pc, config_vars, fertility_vars, table_vars, call_vars,
                    result_vars, stored_results, interleaved_frame,
                    float_truncations >>

\* lines 145-158: the loop is over; fillna(0).astype(int) and the return
InterleavedExistingReturns ==
    /\ \E forecast_year \in DOMAIN calls :
          LET call == calls[forecast_year]
          IN  /\ call.phase = "existing"
              /\ call.i > Len(call.birth_years_for_target)
              /\ \E series \in AgreeingTruncations(
                                   float_truncations, "existing",
                                   forecast_year, call.subzone_preschoolers,
                                   ExistingDen) :
                    /\ calls' = WithCall(forecast_year,
                          [ call EXCEPT
                              !.phase = "existing_returned",
                              !.birth_years_for_target = << >>,
                              !.i = 0,
                              !.subzone_preschoolers = << >>,
                              !.existing_preschoolers = series ])
                    /\ float_truncations' =
                          RecordTruncations(
                              float_truncations, "existing", forecast_year,
                              call.subzone_preschoolers, series)
    /\ UNCHANGED << pc, config_vars, fertility_vars, table_vars, call_vars,
                    result_vars, stored_results, interleaved_frame >>

\* lines 260-262 and 176-181: the call enters
\* calculate_bto_preschoolers_for_year
InterleavedBTOBegins ==
    /\ \E forecast_year \in DOMAIN calls :
          LET call == calls[forecast_year]
          IN  /\ call.phase = "existing_returned"
              /\ calls' = WithCall(forecast_year,
                    [ call EXCEPT
                        !.phase = "bto",
                        !.birth_years_for_target = WindowForCall(forecast_year),
                        !.i = 1,
                        !.subzone_preschoolers =
                            NewSubzoneSeries(
                                SeqToSet(bto_units_by_subzone.columns)) ])
    /\ UNCHANGED << pc, config_vars, fertility_vars, table_vars, call_vars,
                    result_vars, stored_results, interleaved_frame,
                    float_truncations >>

\* lines 183-223: one iteration of the loop over birth_years_for_target;
\* birth_rates[birth_year_str] raises KeyError on a missing label
InterleavedBTOBirthYear ==
    /\ \E forecast_year \in DOMAIN calls :
          LET call == calls[forecast_year]
              window == call.birth_years_for_target
              birth_year == window[call.i]
          IN  /\ call.phase = "bto"
              /\ call.i <= Len(window)
              /\ calls' = WithCall(forecast_year,
                    IF /\ Str(birth_year) \in bto_units_by_subzone.index
                       /\ Str(birth_year) \notin DOMAIN bto_birth_rates
                    THEN [ call EXCEPT !.phase = "KeyError" ]
                    ELSE [ call EXCEPT
                             !.i = call.i + 1,
                             !.subzone_preschoolers =
                                 [ subzone \in DOMAIN call.subzone_preschoolers |->
                                     call.subzone_preschoolers[subzone]
                                     + BTOYearTerm(
                                           bto_units_by_subzone, subzone,
                                           bto_birth_rates, window, birth_year,
                                           min_preschool_age) ] ])
    /\ UNCHANGED << pc, config_vars, fertility_vars, table_vars, call_vars,
                    result_vars, stored_results, interleaved_frame,
                    float_truncations >>

\* lines 225-232, 264-285 and the store of line 325: fillna(0).astype(int),
\* the return, the combination, and results_by_year[forecast_year] = ...
InterleavedCallReturns ==
    /\ \E forecast_year \in DOMAIN calls :
          LET call == calls[forecast_year]
          IN  /\ call.phase = "bto"
              /\ call.i > Len(call.birth_years_for_target)
              /\ \E series \in AgreeingTruncations(
                                   float_truncations, "bto", forecast_year,
                                   call.subzone_preschoolers, BTODen) :
                    /\ calls' = WithCall(forecast_year,
                          [ call EXCEPT
                              !.phase = "stored",
                              !.birth_years_for_target = << >>,
                              !.i = 0,
                              !.subzone_preschoolers = << >>,
                              !.existing_preschoolers = << >> ])
                    /\ float_truncations' =
                          RecordTruncations(
                              float_truncations, "bto", forecast_year,
                              call.subzone_preschoolers, series)
                    /\ stored_results' =
                          Append(stored_results,
                                 << forecast_year,
                                    CombinePreschoolers(
                                        call.existing_preschoolers, series) >>)
    /\ UNCHANGED << pc, config_vars, fertility_vars, table_vars, call_vars,
                    result_vars, interleaved_frame >>

\* The stored results as the dictionary year -> series.
StoredByYear ==
    [ y \in { stored_results[k][1] : k \in 1..Len(stored_results) } |->
        LET k == CHOOSE j \in 1..Len(stored_results) :
                     stored_results[j][1] = y
        IN  stored_results[k][2] ]

\* lines 327-331: the frame of the stored results of all the calls
BuildInterleavedFrame ==
    /\ interleaved_frame = << >>
    /\ Len(stored_results) = Len(forecast_years)
    /\ interleaved_frame' = PreschoolersFrame(StoredByYear)
    /\ UNCHANGED << pc, config_vars, fertility_vars, table_vars, call_vars,
                    result_vars, calls, stored_results, float_truncations >>

NextInterleaved ==
    \/ CalculatePreschoolersForYear
    \/ BuildFrame
    \/ InterleavedCallBegins
    \/ InterleavedExistingBirthYear
    \/ InterleavedExistingReturns
    \/ InterleavedBTOBegins
    \/ InterleavedBTOBirthYear
    \/ InterleavedCallReturns
    \/ BuildInterleavedFrame

SpecInterleaved == InitInterleaved /\ [][NextInterleaved]_vars

-----------------------------------------------------------------------------
(* The fertility steps of Forecaster.run on fertility tables whose observed *)
(* years start late or have holes.                                          *)

\* Sets of observed years: the whole range, a late start, a hole inside,
\* and a single year ahead of the current year.
ObservedYearSets ==
    { ObservedFrom..(CurrentYear - 1),
      (CurrentYear - 2)..(CurrentYear - 1),
      { CurrentYear - 3, CurrentYear - 1 },
      { CurrentYear + 2 } }

\* A fertility file with one column per observed year.
FertilityFileOver(observed, slope) ==
    [ c \in { Str(y) : y \in observed } |->
        [ b \in SeqToSet(all_mother_ages) |->
            BaseRate[b] + slope * (IntOf(c) - ObservedFrom) ] ]

InitFertility ==
    /\ pc = "fertility_run"
    /\ \E ages \in AgeConfigs :
          /\ min_preschool_age = ages[1]
          /\ max_preschool_age = ages[2]
    /\ preschool_capacity = 1
    /\ \E num_forecast_years \in 1..MaxForecastYears :
          forecast_years =
              Range(CurrentYear + 1, CurrentYear + 1 + num_forecast_years)
    /\ \E observed \in ObservedYearSets, slope \in 0..MaxRateSlope :
          fertility_file = FertilityFileOver(observed, slope)
    /\ fertility_data = fertility_file
    /\ bto_data = << >>
    /\ PreschoolProcessorConstructed(CallPreschoolInput)
    /\ NotStarted

NextFertility == FertilityProcessorRun \/ ExtrapolateAgain \/ SelectRates

SpecFertility == InitFertility /\ [][NextFertility]_vars

-----------------------------------------------------------------------------
(* PreschoolProcessor over successive starts of the program on one data     *)
(* directory: each start constructs a new processor on the files the        *)
(* earlier ones left on disk, and another session of the application may    *)
(* save its processed listing at any moment.                                *)

\* Config.processed_preschool_data_path: the default, another path, or None.
ProcessedPathChoices ==
    { << WrittenPreschoolPath >>, << OtherPreschoolPath >>, << >> }

\* The subzone polygons of the subzone file.
SubzonePolygons == { Lab_A, Lab_B }

\* Raw listings: one postal code per centre.
RawListings == { << 1 >>, << 1, 1, 2 >>, << 2, 3, 4 >> }

\* The first start finds the raw listing on disk and possibly a processed
\* listing, at the other path, made from some listing.
InitRuns ==
    /\ pc = "construct"
    /\ min_preschool_age = 0
    /\ max_preschool_age = 0
    /\ preschool_capacity = 1
    /\ forecast_years = << >>
    /\ fertility_file = << >>
    /\ fertility_data = << >>
    /\ bto_data = << >>
    /\ \E raw \in RawListings :
          \/ files = (RawPreschoolPath :> raw)
          \/ \E old \in RawListings :
                files = (RawPreschoolPath :> raw) @@
                        (OtherPreschoolPath :> get_preschool_latlon(old))
    /\ processed_preschool_data_path \in ProcessedPathChoices
    /\ raw_preschool_data = << >>
    /\ processed_preschool_data = << >>
    /\ subzone_data = << >>
    /\ NotStarted

\* PreschoolProcessor.__init__: the subzone file is read, then the
\* processed file or the raw listing.
PreschoolProcessorInit ==
    /\ pc = "construct"
    /\ subzone_data' = SubzoneFrame(SubzonePolygons)
    /\ LET loaded == PreschoolProcessorLoad(files,
                                            processed_preschool_data_path)
       IN  /\ raw_preschool_data' = loaded.raw_preschool_data
           /\ processed_preschool_data' = loaded.processed_preschool_data
    /\ pc' = "preschool_run"
    /\ UNCHANGED << input_vars, replay_vars, files, processed_preschool_data_path,
                    fertility_vars, table_vars, call_vars, result_vars >>

\* The program is started again after a run: the raw listing may have been
\* replaced meanwhile, and the new start may be configured with another
\* processed path.
StartNextRun ==
    /\ pc = "gap"
    /\ \E raw \in RawListings :
          files' = WriteFile(files, RawPreschoolPath, raw)
    /\ processed_preschool_data_path' \in ProcessedPathChoices
    /\ raw_preschool_data' = << >>
    /\ processed_preschool_data' = << >>
    /\ subzone_data' = << >>
    /\ pc' = "construct"
    /\ UNCHANGED << input_vars, replay_vars, fertility_vars, table_vars, call_vars,
                    result_vars >>

\* Another session of the application on the same data directory reaches
\* line 213 of its own run and saves the listing it geocoded.
OtherSessionSaves ==
    /\ \E listing \in RawListings :
          files' = WriteFile(files, WrittenPreschoolPath,
                             get_preschool_latlon(listing))
    /\ UNCHANGED << pc, input_vars, replay_vars, processed_preschool_data_path,
                    raw_preschool_data, processed_preschool_data,
                    subzone_data, fertility_vars, table_vars, call_vars,
                    result_vars >>

NextRuns ==
    \/ PreschoolProcessorInit
    \/ PreschoolGeocode
    \/ PreschoolSave
    \/ PreschoolCount
    \/ StartNextRun
    \/ OtherSessionSaves

SpecRuns == InitRuns /\ [][NextRuns]_vars

-----------------------------------------------------------------------------
(* Properties. *)

\* The sum of the values of a function with a finite domain.
RECURSIVE SumFn(_)
SumFn(f) ==
    IF DOMAIN f = {} THEN 0
    ELSE LET x == CHOOSE x \in DOMAIN f : TRUE
         IN  f[x] + SumFn([ y \in DOMAIN f \ {x} |-> f[y] ])

\* A per-year call of calculate_preschoolers_for_year has returned.
YearComputed == target_year \in DOMAIN results_by_year

\* C1: for every forecast year and all ages min <= max, the single-year
\* window is the contiguous ascending range from year - round(max/12) to
\* year - round(min/12), so it is non-empty and has
\* round(max/12) - round(min/12) + 1 elements.
C1_SingleYearWindowRange ==
    pc = "window_called" =>
        LET w == birth_years_for_target
            lo == target_year - RoundYears(max_preschool_age)
            hi == target_year - RoundYears(min_preschool_age)
        IN  /\ Len(w) >= 1
            /\ Len(w) = RoundYears(max_preschool_age)
                          - RoundYears(min_preschool_age) + 1
            /\ w[1] = lo
            /\ w[Len(w)] = hi
            /\ \A i \in 1..(Len(w) - 1) : w[i + 1] = w[i] + 1

\* C1 witness: 18 and 30 months both round to 2 years, a one-year window.
C1_Witness ==
    /\ pc = "window_called"
    /\ min_preschool_age = 18
    /\ max_preschool_age = 30
    /\ birth_years_for_target = << target_year - 2 >>

\* The women of a subzone in an age bin, from the resident table.
WomenOf(subzone, age_bin) ==
    SumFn([ i \in { j \in 1..Len(existing_women_by_age_bin) :
                      /\ existing_women_by_age_bin[j].Subzone = subzone
                      /\ existing_women_by_age_bin[j].AgeBin = age_bin } |->
              existing_women_by_age_bin[i].Count ])

\* The stored rate of an age bin in a birth year, 0 when there is none.
RateOf(age_bin, birth_year) ==
    IF /\ Str(birth_year) \in DOMAIN fertility_rates_by_age
       /\ age_bin \in DOMAIN fertility_rates_by_age[Str(birth_year)]
    THEN fertility_rates_by_age[Str(birth_year)][age_bin]
    ELSE 0

\* Twice the weight of a birth year in the existing-resident sum.
TwiceWeight(birth_year) ==
    IF birth_year = Max(SeqToSet(birth_years_for_target)) THEN 1 ELSE 2

\* C2: the existing-resident contribution of a subzone before integer
\* conversion is the sum over the birth years b of the window of
\* w(b) * sum over the 7 bins of women * rate / 1000, with w(b) = 0.5 for
\* the maximum birth year and 1 otherwise.  Both sides are multiplied by
\* 2 * 1000.
C2_ExistingContribution ==
    YearComputed =>
        /\ DOMAIN existing_accumulated =
              { existing_women_by_age_bin[i].Subzone :
                  i \in 1..Len(existing_women_by_age_bin) }
        /\ \A subzone \in DOMAIN existing_accumulated :
              existing_accumulated[subzone] =
                  SumFn([ b \in SeqToSet(birth_years_for_target) |->
                            TwiceWeight(b)
                            * SumFn([ age_bin \in SeqToSet(all_mother_ages) |->
                                        WomenOf(subzone, age_bin)
                                        * RateOf(age_bin, b) ]) ])

\* C2 witness: the window is its maximum alone, 1000 women, rate 50 per
\* 1000: the contribution is 25.
C2_Witness ==
    /\ YearComputed
    /\ Len(birth_years_for_target) = 1
    /\ Lab_B \in DOMAIN existing_accumulated
    /\ WomenOf(Lab_B, "40 - 44 Years") = 1000
    /\ RateOf("40 - 44 Years", birth_years_for_target[1]) = 50
    /\ existing_accumulated[Lab_B] = 25 * ExistingDen
    /\ existing_preschoolers[Lab_B] = 25

\* The cumulative units of a subzone label in a year of the housing series.
UnitsOf(subzone, label) ==
    SumFn([ i \in { j \in 1..Len(bto_units_by_subzone.columns) :
                      bto_units_by_subzone.columns[j] = subzone } |->
              bto_units_by_subzone.data[label][i] ])

\* Twelve times the partial-year factor d(b) of the new-housing sum.
TwelveTimesDiscount(birth_year) ==
    IF /\ birth_year = Max(SeqToSet(birth_years_for_target))
       /\ min_preschool_age % 12 # 0
    THEN 12 - (min_preschool_age % 12)
    ELSE 12

\* C3: the new-housing contribution of a subzone before integer conversion
\* is the sum over the birth years b of the window that are in the housing
\* series of units * averaged rate * d(b), with d(b) = (12 - min % 12) / 12
\* only for the maximum birth year when min % 12 # 0, and 1 otherwise.
\* Both sides are multiplied by 4 * 1000 * 12.
C3_NewHousingContribution ==
    YearComputed =>
        /\ DOMAIN bto_accumulated = SeqToSet(bto_units_by_subzone.columns)
        /\ \A subzone \in DOMAIN bto_accumulated :
              bto_accumulated[subzone] =
                  SumFn([ b \in { y \in SeqToSet(birth_years_for_target) :
                                    Str(y) \in bto_units_by_subzone.index } |->
                            UnitsOf(subzone, Str(b))
                            * bto_birth_rates[Str(b)]
                            * TwelveTimesDiscount(b) ])

\* C3 witness: 200 units at the window maximum, averaged rate 0.02
\* (80 / 4000), minimum age 18 months: the contribution is 2.
C3_Witness ==
    /\ YearComputed
    /\ min_preschool_age = 18
    /\ LET b == Max(SeqToSet(birth_years_for_target))
       IN  /\ bto_units_by_subzone.index = { Str(b) }
           /\ UnitsOf(Lab_A, Str(b)) = 200
           /\ bto_birth_rates[Str(b)] = 80
    /\ bto_accumulated[Lab_A] = 2 * BTODen
    /\ bto_preschoolers[Lab_A] = 2

\* The two unrounded contributions of a subzone, added, as a numerator
\* over BTODen.
UnroundedTotal(subzone) ==
    (IF subzone \in DOMAIN existing_accumulated
     THEN existing_accumulated[subzone] * (BTODen \div ExistingDen) ELSE 0)
    + (IF subzone \in DOMAIN bto_accumulated
       THEN bto_accumulated[subzone] ELSE 0)

\* C4: the total of a subzone for a forecast year is the sum of its
\* unrounded existing-resident and new-housing contributions, rounded to
\* the nearest integer (at most one half away from the sum).
C4_TotalIsRoundedSum ==
    YearComputed =>
        \A subzone \in DOMAIN results_by_year[target_year] :
            LET diff == results_by_year[target_year][subzone] * BTODen
                          - UnroundedTotal(subzone)
            IN  /\ 2 * diff <= BTODen
                /\ 2 * diff >= -BTODen

\* C5: calculate_preschoolers_for_year returns one entry per subzone of the
\* union of the two sides' subzones; a subzone of one side only gets that
\* side's value; no error is raised.
C5_UnionOfSubzones ==
    /\ pc # "KeyError"
    /\ YearComputed =>
        LET total == results_by_year[target_year]
        IN  /\ DOMAIN total =
                  DOMAIN existing_preschoolers \cup DOMAIN bto_preschoolers
            /\ \A s \in DOMAIN existing_preschoolers \ DOMAIN bto_preschoolers :
                  total[s] = existing_preschoolers[s]
            /\ \A s \in DOMAIN bto_preschoolers \ DOMAIN existing_preschoolers :
                  total[s] = bto_preschoolers[s]
            /\ \A s \in DOMAIN bto_preschoolers \cap DOMAIN existing_preschoolers :
                  total[s] = existing_preschoolers[s] + bto_preschoolers[s]

\* C5 witness: a subzone with residents only and one with housing only,
\* each with a value of its own.
C5_Witness ==
    /\ YearComputed
    /\ \E s \in DOMAIN existing_preschoolers \ DOMAIN bto_preschoolers :
          results_by_year[target_year][s] > 0
    /\ \E s \in DOMAIN bto_preschoolers \ DOMAIN existing_preschoolers :
          results_by_year[target_year][s] > 0

\* C6: the subzones of the gap matrix are exactly the subzones that are
\* both in the existing-supply table and in the forecast-needed matrix.
C6_GapSubzonesAreIntersection ==
    pc = "done" =>
        \A y \in DOMAIN preschool_gap :
            DOMAIN preschool_gap[y] =
                DOMAIN existing_preschools_by_subzone
                \cap DOMAIN forecasted_preschools_needed[y]

\* C7: for every forecast year and every subzone in both inputs, the gap
\* is supply - needed: positive exactly when supply exceeds need, negative
\* exactly when need exceeds supply.
C7_GapIsSupplyMinusNeeded ==
    pc = "done" =>
        /\ DOMAIN preschool_gap = DOMAIN forecasted_preschools_needed
        /\ \A y \in DOMAIN preschool_gap :
              \A s \in DOMAIN existing_preschools_by_subzone
                       \cap DOMAIN forecasted_preschools_needed[y] :
                  LET supply == existing_preschools_by_subzone[s]
                      needed == forecasted_preschools_needed[y][s]
                      gap == preschool_gap[y][s]
                  IN  /\ gap = supply - needed
                      /\ (gap > 0) <=> (supply > needed)
                      /\ (gap < 0) <=> (needed > supply)

\* C7 witness: a run with a surplus cell and a shortage cell.
C7_Witness ==
    /\ pc = "done"
    /\ \E y \in DOMAIN preschool_gap :
          \E s, t \in DOMAIN existing_preschools_by_subzone
                      \cap DOMAIN forecasted_preschools_needed[y] :
              /\ preschool_gap[y][s] > 0
              /\ forecasted_preschools_needed[y][s] > 0
              /\ preschool_gap[y][t] < 0

\* The needed conversion has run.
NeededComputed == pc = "preschool_run"

\* C8 as stated: needed = count / capacity rounded to the nearest integer,
\* every exact half rounded up.
C8_NeededRoundsHalfUp ==
    NeededComputed =>
        \A y \in DOMAIN forecasted_preschools_needed :
            \A s \in DOMAIN forecasted_preschools_needed[y] :
                LET count == forecasted_num_preschoolers[y][s]
                    needed == forecasted_preschools_needed[y][s]
                IN  /\ 2 * needed * preschool_capacity
                          <= 2 * count + preschool_capacity
                    /\ 2 * needed * preschool_capacity
                          > 2 * count - preschool_capacity

\* C8 as amended: needed = count / capacity rounded to the nearest
\* integer, an exact half rounded to the even neighbour; never truncated,
\* never ceiled.
C8_NeededRoundsHalfEven ==
    NeededComputed =>
        \A y \in DOMAIN forecasted_preschools_needed :
            \A s \in DOMAIN forecasted_preschools_needed[y] :
                LET count == forecasted_num_preschoolers[y][s]
                    needed == forecasted_preschools_needed[y][s]
                    twice == 2 * (needed * preschool_capacity - count)
                IN  /\ twice <= preschool_capacity
                    /\ twice >= -preschool_capacity
                    /\ (twice = preschool_capacity
                         \/ twice = -preschool_capacity) => needed % 2 = 0

\* C8 witness: 5 preschoolers at capacity 2 (quotient 2.5) need 2.
C8_Witness ==
    /\ NeededComputed
    /\ preschool_capacity = 2
    /\ \E y \in DOMAIN forecasted_preschools_needed :
          /\ forecasted_num_preschoolers[y][Lab_A] = 5
          /\ forecasted_preschools_needed[y][Lab_A] = 2

\* The first extrapolate_births call of the run has returned.
Extrapolated == pc = "extrapolate_again"

\* The latest year of the fertility file.
LatestInFile == Max({ IntOf(c) : c \in DOMAIN fertility_file })

\* C9: with latest the greatest year of the table, if max(B) > latest then
\* after extrapolate_births(B) every year in (latest, max(B)] has the
\* column of latest, every earlier column is unchanged and no other column
\* exists; if max(B) <= latest the table is unchanged.
C9_FlatCarryForward ==
    Extrapolated =>
        LET last == Max(SeqToSet(birth_years))
        IN  IF last > LatestInFile
            THEN /\ DOMAIN fertility_data =
                       DOMAIN fertility_file
                       \cup { Str(y) : y \in (LatestInFile + 1)..last }
                 /\ \A y \in (LatestInFile + 1)..last :
                       fertility_data[Str(y)] =
                           fertility_file[Str(LatestInFile)]
                 /\ \A c \in DOMAIN fertility_file :
                       fertility_data[c] = fertility_file[c]
            ELSE fertility_data = fertility_file

\* C9 witness: two or more years were filled, from a column that differs
\* from the one before it.
C9_Witness ==
    /\ Extrapolated
    /\ Max(SeqToSet(birth_years)) >= LatestInFile + 2
    /\ Str(LatestInFile + 2) \in DOMAIN fertility_data
    /\ fertility_file[Str(LatestInFile)] # fertility_file[Str(LatestInFile - 1)]

\* C10: once extrapolate_births has been called with the birth years of
\* the run, calling it again with the same birth years leaves the table
\* as it is.
C10_ExtrapolationIdempotent ==
    (pc # "fertility_run" /\ birth_years # << >>) =>
        extrapolate_births(fertility_data, birth_years) = fertility_data

\* C10 witness: the second call of the run has returned, on a table the
\* first call had extended.
C10_Witness ==
    /\ pc = "select_rates"
    /\ DOMAIN fertility_data # DOMAIN fertility_file
    /\ birth_years # << >>

\* A call of birth_years_for_multiple_forecast_years has returned.
MultiCalled == pc = "multi_called"

\* The single-year window of a forecast year under the configured ages.
WindowOf(year) ==
    birth_years_for_single_forecast_year(year, min_preschool_age,
                                         max_preschool_age)

\* C11: birth_years_for_multiple_forecast_years returns the whole window of
\* the first forecast year followed, for each later forecast year in order,
\* by the maximum birth year of that year's window and nothing else.
C11_FirstWindowThenMaxima ==
    MultiCalled =>
        LET first == WindowOf(forecast_years[1])
            n == Len(forecast_years)
        IN  /\ Len(birth_years) = Len(first) + n - 1
            /\ SubSeq(birth_years, 1, Len(first)) = first
            /\ \A i \in 2..n :
                  /\ birth_years[Len(first) + i - 1] \in
                        SeqToSet(WindowOf(forecast_years[i]))
                  /\ \A b \in SeqToSet(WindowOf(forecast_years[i])) :
                        b <= birth_years[Len(first) + i - 1]

\* A call with the years Y+1, Y+3, Y+2 and ages 6..30 months returned the
\* window of Y+1 and then the maxima Y+3 and Y+2.
C11_Witness ==
    /\ MultiCalled
    /\ forecast_years =
          << CurrentYear + 1, CurrentYear + 3, CurrentYear + 2 >>
    /\ birth_years = << CurrentYear - 1, CurrentYear, CurrentYear + 1,
                        CurrentYear + 3, CurrentYear + 2 >>

\* The forecast years are consecutive integers increasing by 1.
Consecutive(years) ==
    \A i \in 1..(Len(years) - 1) : years[i + 1] = years[i] + 1

\* C12: when the forecast years are consecutive integers increasing by 1,
\* the multi-year list holds exactly the union of the single-year windows
\* of all forecast years, each birth year once, in ascending order.
C12_ConsecutiveYearsGiveUnion ==
    (MultiCalled /\ Consecutive(forecast_years)) =>
        /\ SeqToSet(birth_years) =
              UNION { SeqToSet(WindowOf(forecast_years[i])) :
                        i \in 1..Len(forecast_years) }
        /\ \A i \in 1..(Len(birth_years) - 1) :
              birth_years[i] < birth_years[i + 1]

\* A call with three consecutive years and a window of three years
\* returned five birth years.
C12_Witness ==
    /\ MultiCalled
    /\ forecast_years =
          << CurrentYear + 1, CurrentYear + 2, CurrentYear + 3 >>
    /\ Len(WindowOf(forecast_years[1])) = 3
    /\ Len(birth_years) = 5

\* C13: with preschool capacity 0 a run fails fast with a configuration
\* error: no stage of the run is executed, no infinite or NaN value is
\* produced, and no needed or gap matrix is built.
C13_ZeroCapacityFailsFast ==
    preschool_capacity = 0 =>
        /\ pc \in { "fertility_run", "ConfigurationError" }
        /\ needed_quotient = << >>
        /\ forecasted_preschools_needed = << >>
        /\ preschool_gap = << >>

\* C14: subzone labels that differ only in surrounding whitespace, in the
\* housing data, in the resident data or one in each, end up as a single
\* entry of the per-year result: the result never holds two entries for
\* labels that are equal after trimming.
C14_TrimmedLabelsShareOneEntry ==
    YearComputed =>
        \A s, t \in DOMAIN results_by_year[target_year] :
            Strip(s) = Strip(t) => s = t

\* The resident rows of a subzone whose age lies in one of the seven bins.
RowsOf(subzone) ==
    { i \in 1..Len(existing_residents_in_subzones) :
        /\ existing_residents_in_subzones[i].Subzone = subzone
        /\ \E b \in DOMAIN BinBounds :
              /\ existing_residents_in_subzones[i].Age >= BinBounds[b][1]
              /\ existing_residents_in_subzones[i].Age <= BinBounds[b][2] }

\* The bin of a resident row.
BinOfRow(i) ==
    CHOOSE b \in DOMAIN BinBounds :
        /\ existing_residents_in_subzones[i].Age >= BinBounds[b][1]
        /\ existing_residents_in_subzones[i].Age <= BinBounds[b][2]

\* The housing projects of the file whose trimmed label is the subzone and
\* which are completed by the year.
ProjectsOf(subzone, year) ==
    { i \in 1..Len(bto_data) :
        /\ Strip(bto_data[i].Subzone) = subzone
        /\ bto_data[i].Year <= year }

\* C15: duplicate keys are summed, never dropped or overwritten. Every
\* resident row of a (subzone, age bin) adds its count times the bin's rate
\* to the existing-resident estimate, and every housing column of a subzone
\* label adds its cumulative units to the new-housing estimate, each once.
\* The two sides are multiplied as in C2 and C3.
C15_DuplicateKeysAreSummed ==
    YearComputed =>
        /\ \A subzone \in DOMAIN existing_accumulated :
              existing_accumulated[subzone] =
                  SumFn([ b \in SeqToSet(birth_years_for_target) |->
                            TwiceWeight(b)
                            * SumFn([ i \in RowsOf(subzone) |->
                                  existing_residents_in_subzones[i].Count
                                  * RateOf(BinOfRow(i), b) ]) ])
        /\ \A subzone \in DOMAIN bto_accumulated :
              bto_accumulated[subzone] =
                  SumFn([ b \in { y \in SeqToSet(birth_years_for_target) :
                                    Str(y) \in bto_units_by_subzone.index } |->
                            SumFn([ i \in ProjectsOf(subzone, b) |->
                                      bto_data[i].Units ])
                            * bto_birth_rates[Str(b)]
                            * TwelveTimesDiscount(b) ])

\* Two resident rows of subzone A fall into the bin 25 - 29 and two housing
\* columns carry the label A, each with units in a year of the window: both
\* estimates of A hold the sums.
C15_Witness ==
    /\ YearComputed
    /\ \E i, j \in RowsOf(Lab_A) :
          /\ i # j
          /\ BinOfRow(i) = "25 - 29 Years"
          /\ BinOfRow(j) = "25 - 29 Years"
          /\ existing_residents_in_subzones[i].Count > 0
          /\ existing_residents_in_subzones[j].Count > 0
    /\ WomenOf(Lab_A, "25 - 29 Years") = 100
    /\ existing_accumulated[Lab_A] > 0
    /\ bto_units_by_subzone.columns = << Lab_A, Lab_A >>
    /\ \E b \in SeqToSet(birth_years_for_target) :
          /\ Str(b) \in bto_units_by_subzone.index
          /\ bto_units_by_subzone.data[Str(b)][1] > 0
          /\ bto_units_by_subzone.data[Str(b)][2] > 0
    /\ bto_accumulated[Lab_A] > 0

\* A per-year call has computed its existing-resident side.
ExistingComputed == target_year # 0

\* The birth years of the window that have a column in the rate table.
YearsWithColumn ==
    { b \in SeqToSet(birth_years_for_target) :
        Str(b) \in DOMAIN fertility_rates_by_age }

\* The age bins that have a row in the rate table for a birth year.
BinsWithRow(birth_year) ==
    SeqToSet(all_mother_ages)
        \cap DOMAIN fertility_rates_by_age[Str(birth_year)]

\* C16: in the existing-resident calculation a birth year with no column in
\* the fertility table, or an age bin with no row for the year, adds 0 to
\* every subzone and raises no error: every subzone of the resident table
\* has its value, which is the sum over the birth years and age bins that
\* are in the table (both sides multiplied by 2 * 1000).
C16_MissingRateContributesZero ==
    ExistingComputed =>
        /\ DOMAIN existing_accumulated =
              { existing_women_by_age_bin[i].Subzone :
                  i \in 1..Len(existing_women_by_age_bin) }
        /\ DOMAIN existing_preschoolers = DOMAIN existing_accumulated
        /\ \A subzone \in DOMAIN existing_accumulated :
              existing_accumulated[subzone] =
                  SumFn([ b \in YearsWithColumn |->
                            TwiceWeight(b)
                            * SumFn([ age_bin \in BinsWithRow(b) |->
                                  WomenOf(subzone, age_bin)
                                  * fertility_rates_by_age[Str(b)][age_bin] ]) ])

\* The window 2025..2027 has no column for 2025, and the table has no row
\* for the bin 30 - 34 in which subzone A has 40 women: A still gets the
\* 100 women of 25 - 29 at rate 20 for 2026 and half of it for 2027.
C16_Witness ==
    /\ ExistingComputed
    /\ birth_years_for_target =
          << CurrentYear - 1, CurrentYear, CurrentYear + 1 >>
    /\ YearsWithColumn = { CurrentYear, CurrentYear + 1 }
    /\ BinsWithRow(CurrentYear) = { "25 - 29 Years", "40 - 44 Years" }
    /\ WomenOf(Lab_A, "30 - 34 Years") = 40
    /\ WomenOf(Lab_A, "25 - 29 Years") = 100
    /\ existing_accumulated[Lab_A] = 3 * ExistingDen
    /\ existing_preschoolers[Lab_A] = 3

\* C17: in the new-housing calculation a birth year that is in the housing
\* series but has no entry in the averaged birth-rate series adds 0 and the
\* computation does not abort: the call returns, and the new-housing value
\* of a subzone is the sum over the birth years that have a rate (both
\* sides multiplied by 4 * 1000 * 12).
C17_MissingBirthRateContributesZero ==
    ExistingComputed =>
        /\ pc # "KeyError"
        /\ YearComputed
        /\ \A subzone \in DOMAIN bto_accumulated :
              bto_accumulated[subzone] =
                  SumFn([ b \in { y \in SeqToSet(birth_years_for_target) :
                                    /\ Str(y) \in bto_units_by_subzone.index
                                    /\ Str(y) \in DOMAIN bto_birth_rates } |->
                            UnitsOf(subzone, Str(b))
                            * bto_birth_rates[Str(b)]
                            * TwelveTimesDiscount(b) ])

\* The existing-resident sum of a subzone with every product in it,
\* whatever its sign (times 2 * 1000).
ExistingUnclamped(subzone) ==
    SumFn([ b \in SeqToSet(birth_years_for_target) |->
              TwiceWeight(b)
              * SumFn([ age_bin \in SeqToSet(all_mother_ages) |->
                          WomenOf(subzone, age_bin) * RateOf(age_bin, b) ]) ])

\* The new-housing sum of a subzone with every product in it, whatever its
\* sign (times 4 * 1000 * 12).
HousingUnclamped(subzone) ==
    SumFn([ b \in { y \in SeqToSet(birth_years_for_target) :
                      Str(y) \in bto_units_by_subzone.index } |->
              UnitsOf(subzone, Str(b)) * bto_birth_rates[Str(b)]
              * TwelveTimesDiscount(b) ])

\* C20: negative contributions are never clamped to zero: when a women
\* count, a rate or a cumulative unit count is negative, the negative
\* product is part of the subzone's total in both calculations, and the
\* integer results are these totals converted.
C20_NegativeContributionsPropagate ==
    YearComputed =>
        /\ \A subzone \in DOMAIN existing_accumulated :
              /\ existing_accumulated[subzone] = ExistingUnclamped(subzone)
              /\ existing_preschoolers[subzone] \in
                    AsTypeIntOfFloat(ExistingUnclamped(subzone), ExistingDen)
        /\ \A subzone \in DOMAIN bto_accumulated :
              /\ bto_accumulated[subzone] = HousingUnclamped(subzone)
              /\ bto_preschoolers[subzone] \in
                    AsTypeIntOfFloat(HousingUnclamped(subzone), BTODen)

\* calculate_preschoolers_all_years has returned its matrix.
FrameBuilt ==
    pc \in { "needed", "preschool_run", "preschool_save", "preschool_count",
             "gap", "done", "IntCastingNaNError" }

\* C18: the forecast matrix of calculate_preschoolers_all_years has exactly
\* one row per forecast year current_year + 1 .. current_year + n, filled in
\* ascending order (at any point of the loop the years done are the first
\* ones of the ascending list), and one column per subzone seen in any
\* year; a cell holds the value computed for its year and subzone, and 0
\* when none was computed.
C18_ForecastMatrixShape ==
    LET n == Len(forecast_years)
        done == Cardinality(DOMAIN results_by_year)
        seen == UNION { DOMAIN results_by_year[y] :
                          y \in DOMAIN results_by_year }
    IN  /\ \A i \in 1..n : forecast_years[i] = CurrentYear + i
        /\ DOMAIN results_by_year = { forecast_years[i] : i \in 1..done }
        /\ FrameBuilt =>
              /\ DOMAIN forecasted_num_preschoolers =
                    (CurrentYear + 1)..(CurrentYear + n)
              /\ \A y \in DOMAIN forecasted_num_preschoolers :
                    /\ DOMAIN forecasted_num_preschoolers[y] = seen
                    /\ \A s \in seen :
                          forecasted_num_preschoolers[y][s] =
                              IF s \in DOMAIN results_by_year[y]
                              THEN results_by_year[y][s]
                              ELSE 0

\* A matrix of two forecast years and three subzones, with a child in it.
C18_Witness ==
    /\ pc = "needed"
    /\ Len(forecast_years) = 2
    /\ DOMAIN forecasted_num_preschoolers =
          { CurrentYear + 1, CurrentYear + 2 }
    /\ DOMAIN forecasted_num_preschoolers[CurrentYear + 2] =
          { Lab_A, Lab_A_sp, Lab_C }
    /\ forecasted_num_preschoolers[CurrentYear + 2][Lab_A] > 0
    /\ forecasted_num_preschoolers[CurrentYear + 1][Lab_C] = 0

\* The stored rates of the four bins 20-24 .. 35-39 of a year, summed.
FourBinSum(label) ==
    fertility_data[label]["20 - 24 Years"]
    + fertility_data[label]["25 - 29 Years"]
    + fertility_data[label]["30 - 34 Years"]
    + fertility_data[label]["35 - 39 Years"]

\* C19: the averaged birth rate for new housing in a year is the stored
\* rates of exactly the four bins 20-24, 25-29, 30-34, 35-39 of the year,
\* summed and divided by 4 and by 1000 (it is kept as the numerator over
\* 4 * 1000); the rates the existing-resident calculation uses are the
\* stored rates of each of the seven bins; and the new-housing estimate is
\* made of the four-bin sums alone, so the bins 15-19, 40-44 and 45-49
\* never influence it.
C19_FourBinAverageSevenBinRates ==
    /\ BirthRateDen = 4 * 1000
    /\ bto_birth_rates # << >> =>
          /\ DOMAIN bto_birth_rates =
                { Str(y) : y \in SeqToSet(birth_years) }
          /\ \A label \in DOMAIN bto_birth_rates :
                bto_birth_rates[label] = FourBinSum(label)
    /\ fertility_rates_by_age # << >> =>
          \A label \in DOMAIN fertility_rates_by_age :
              /\ DOMAIN fertility_rates_by_age[label] =
                    { "15 - 19 Years", "20 - 24 Years", "25 - 29 Years",
                      "30 - 34 Years", "35 - 39 Years", "40 - 44 Years",
                      "45 - 49 Years" }
              /\ \A age_bin \in DOMAIN fertility_rates_by_age[label] :
                    fertility_rates_by_age[label][age_bin] =
                        fertility_data[label][age_bin]
    /\ YearComputed =>
          \A subzone \in DOMAIN bto_accumulated :
              bto_accumulated[subzone] =
                  SumFn([ b \in { y \in SeqToSet(birth_years_for_target) :
                                    Str(y) \in bto_units_by_subzone.index } |->
                            UnitsOf(subzone, Str(b)) * FourBinSum(Str(b))
                            * TwelveTimesDiscount(b) ])

\* The stored rates of 2025 are 2, 10, 20, 30, 20, 50, 1: the averaged rate
\* is 80 / 4000, 200 units of subzone A give 4 children for the full year
\* 2025, and the existing-resident rates keep the 50 of the bin 40-44.
C19_Witness ==
    /\ YearComputed
    /\ Str(CurrentYear - 1) \in DOMAIN bto_birth_rates
    /\ fertility_data[Str(CurrentYear - 1)]["15 - 19 Years"] = 2
    /\ fertility_data[Str(CurrentYear - 1)]["40 - 44 Years"] = 50
    /\ fertility_data[Str(CurrentYear - 1)]["45 - 49 Years"] = 1
    /\ bto_birth_rates[Str(CurrentYear - 1)] = 80
    /\ fertility_rates_by_age[Str(CurrentYear - 1)]["40 - 44 Years"] = 50
    /\ birth_years_for_target[1] = CurrentYear - 1
    /\ Len(birth_years_for_target) > 1
    /\ Str(CurrentYear - 1) \in bto_units_by_subzone.index
    /\ UnitsOf(Lab_A, Str(CurrentYear - 1)) = 200
    /\ bto_accumulated[Lab_A] >= 4 * BTODen

\* Every cell of a frame year -> (subzone -> value) is a natural number.
CellsAreNaturals(frame) ==
    \A y \in DOMAIN frame : \A s \in DOMAIN frame[y] : frame[y][s] \in Nat

\* C21: with non-negative women counts, fertility rates and housing unit
\* counts, every cell of the forecast matrix and of the needed matrix (and
\* of every per-year result) is a non-negative integer.
C21_CellsAreNonNegativeIntegers ==
    /\ CellsAreNaturals(results_by_year)
    /\ CellsAreNaturals(forecasted_num_preschoolers)
    /\ CellsAreNaturals(forecasted_preschools_needed)

\* Both matrices are built and hold a positive cell and a zero cell.
C21_Witness ==
    /\ NeededComputed
    /\ \E y \in DOMAIN forecasted_num_preschoolers :
          \E s, t \in DOMAIN forecasted_num_preschoolers[y] :
              /\ forecasted_num_preschoolers[y][s] > 0
              /\ forecasted_preschools_needed[y][s] > 0
              /\ forecasted_num_preschoolers[y][t] = 0
              /\ forecasted_preschools_needed[y][t] = 0

\* The projects of the housing file completed by the last forecast year.
IncludedProjects ==
    { i \in 1..Len(bto_data) :
        bto_data[i].Year <= Max(SeqToSet(forecast_years)) }

\* C22: for non-negative completion counts the housing series is
\* non-decreasing in year for every subzone column, and the value at a year
\* is the sum of the units of that subzone completed in that year or
\* earlier, over the completions with year <= the last forecast year.
C22_HousingSeriesIsCumulative ==
    bto_units_by_subzone # << >> =>
        LET frame == bto_units_by_subzone
            raw == SortedLabels({ bto_data[i].Subzone : i \in IncludedProjects })
        IN  /\ frame.index = { Str(bto_data[i].Year) : i \in IncludedProjects }
            /\ Len(frame.columns) = Len(raw)
            /\ \A j \in 1..Len(raw) :
                  /\ \A label \in frame.index :
                        frame.data[label][j] =
                            SumFn([ i \in { k \in IncludedProjects :
                                      /\ bto_data[k].Subzone = raw[j]
                                      /\ bto_data[k].Year <= IntOf(label) } |->
                                      bto_data[i].Units ])
                  /\ \A l1, l2 \in frame.index :
                        IntOf(l1) <= IntOf(l2) =>
                            frame.data[l1][j] <= frame.data[l2][j]

\* Subzone A completes 100 units four years ago and 100 last year, subzone
\* B 300 next year: the series of A reads 100, 200, 200, that of B 0, 0, 300.
C22_Witness ==
    /\ bto_units_by_subzone # << >>
    /\ bto_units_by_subzone.columns = << Lab_A, Lab_B >>
    /\ bto_units_by_subzone.data[Str(CurrentYear - 4)] = << 100, 0 >>
    /\ bto_units_by_subzone.data[Str(CurrentYear - 1)] = << 200, 0 >>
    /\ bto_units_by_subzone.data[Str(CurrentYear + 1)] = << 200, 300 >>

\* A single-year window call has returned.
WindowCalled == pc = "window_called"

\* C23: with the default ages, minimum 18 and maximum 72 months, the
\* single-year window of any forecast year holds exactly 5 birth years
\* (the years 6 to 2 before the forecast year).
C23_DefaultWindowHasFiveYears ==
    (WindowCalled /\ min_preschool_age = 18 /\ max_preschool_age = 72) =>
        /\ Len(birth_years_for_target) = 5
        /\ birth_years_for_target =
              [ i \in 1..5 |-> target_year - 7 + i ]

\* A call with the default ages for the second forecast year returned the
\* five years from 6 to 2 years earlier.
C23_Witness ==
    /\ WindowCalled
    /\ min_preschool_age = 18
    /\ max_preschool_age = 72
    /\ target_year = CurrentYear + 2
    /\ birth_years_for_target[1] = CurrentYear - 4
    /\ birth_years_for_target[5] = CurrentYear

\* The integer nearest to months / 12, the even one of the two when
\* months / 12 lies exactly between two integers.
NearestYearsTiesToEven(months) ==
    CHOOSE k \in 0..(months + 1) :
        \/ 2 * 12 * k - 2 * months < 12 /\ 2 * months - 2 * 12 * k < 12
        \/ /\ (2 * 12 * k - 2 * months = 12 \/ 2 * months - 2 * 12 * k = 12)
           /\ k % 2 = 0

\* C24: the age offset in whole years is months / 12 rounded to the nearest
\* integer, an exact half to the even integer: 18 months gives 2, 6 months
\* 0, 30 months 2, 42 months 4; the window starts at the forecast year minus
\* the offset of the maximum age and ends at the forecast year minus the
\* offset of the minimum age, both by this rule.
C24_OffsetsRoundHalfToEven ==
    /\ RoundYears(18) = 2
    /\ RoundYears(6) = 0
    /\ RoundYears(30) = 2
    /\ RoundYears(42) = 4
    /\ WindowCalled =>
          /\ birth_years_for_target[1] =
                target_year - NearestYearsTiesToEven(max_preschool_age)
          /\ birth_years_for_target[Len(birth_years_for_target)] =
                target_year - NearestYearsTiesToEven(min_preschool_age)

\* A call with minimum 6 and maximum 30 months: the window runs from two
\* years before the forecast year to the forecast year itself.
C24_Witness ==
    /\ WindowCalled
    /\ min_preschool_age = 6
    /\ max_preschool_age = 30
    /\ birth_years_for_target =
          << target_year - 2, target_year - 1, target_year >>

\* The forecast years ascend and two neighbours are more than a year apart.
AscendingWithGap(years) ==
    /\ \A i \in 1..(Len(years) - 1) : years[i] < years[i + 1]
    /\ \E i \in 1..(Len(years) - 1) : years[i + 1] > years[i] + 1

\* The birth years of the union of the single-year windows that the
\* multi-year list does not hold.
MissedBirthYears ==
    UNION { SeqToSet(WindowOf(forecast_years[i])) :
              i \in 1..Len(forecast_years) }
        \ SeqToSet(birth_years)

\* C25: for forecast years that are not consecutive (a gap of more than one
\* year between neighbours) birth_years_for_multiple_forecast_years raises
\* no error and returns a list that misses birth years of the union of the
\* single-year windows.
C25_GapLosesBirthYears ==
    AscendingWithGap(forecast_years) =>
        /\ ENABLED MultiYearWindowCall \/ MultiCalled
        /\ MultiCalled => MissedBirthYears # {}

\* C25 as it holds: the list misses birth years when the single-year window
\* spans at least two years (round(max/12) > round(min/12)); when the window
\* is a single year the list is the whole union and nothing is missed. In
\* both cases the call returns without error.
C25_GapLosesBirthYearsOfWideWindows ==
    AscendingWithGap(forecast_years) =>
        /\ ENABLED MultiYearWindowCall \/ MultiCalled
        /\ MultiCalled =>
              IF Len(WindowOf(forecast_years[1])) >= 2
              THEN /\ MissedBirthYears # {}
                   /\ \A i \in 1..(Len(forecast_years) - 1) :
                         forecast_years[i + 1] > forecast_years[i] + 1 =>
                             LET w == WindowOf(forecast_years[i + 1])
                             IN  w[Len(w) - 1] \in MissedBirthYears
              ELSE MissedBirthYears = {}

\* The years Y+1 and Y+3 with ages 6..30 months: the list holds Y-1, Y, Y+1
\* and Y+3 and misses Y+2, a birth year of the window of Y+3.
C25_Witness ==
    /\ MultiCalled
    /\ forecast_years = << CurrentYear + 1, CurrentYear + 3 >>
    /\ birth_years = << CurrentYear - 1, CurrentYear, CurrentYear + 1,
                        CurrentYear + 3 >>
    /\ MissedBirthYears = { CurrentYear + 2 }

\* The source tables of a run: fertility table and the rates selected from
\* it, resident table, housing series.
source_tables ==
    << fertility_data, bto_birth_rates, fertility_rates_by_age,
       existing_residents_in_subzones, existing_women_by_age_bin,
       bto_units_by_subzone >>

\* C26: in Forecaster.run every write to the fertility table happens before
\* the first per-year estimate starts; from then on no per-year estimate,
\* needed-conversion or gap step changes the fertility table, the resident
\* table or the housing series, none of them changes the existing-supply
\* table, and the gap step leaves the needed matrix it is given unchanged.
C26_TablesAreReadOnlyOnceLoaded ==
    [][ /\ fertility_data' # fertility_data =>
              pc \in { "fertility_run", "extrapolate_again" }
        /\ pc \in { "for_year", "needed", "preschool_run", "preschool_save",
                     "preschool_count", "gap" } =>
              source_tables' = source_tables
        /\ pc \in { "for_year", "needed", "gap" } =>
              existing_preschools_by_subzone' = existing_preschools_by_subzone
        /\ pc = "gap" =>
              forecasted_preschools_needed' = forecasted_preschools_needed
      ]_vars

\* A run has returned; its fertility table was extended by the
\* extrapolation, and its gap differs from the needed matrix.
C26_Witness ==
    /\ pc = "done"
    /\ fertility_data # fertility_file
    /\ preschool_gap # forecasted_preschools_needed
    /\ Len(forecast_years) = 2

\* The forecast years in the order in which the interleaved calls stored
\* their results.
StoredOrder == [ k \in 1..Len(stored_results) |-> stored_results[k][1] ]

\* C27: the per-year estimates are independent. Whatever the order in which
\* the calls for the forecast years begin, however their steps interleave
\* and whichever calls ran before or during a call, the series a call
\* returns for a forecast year equals the series the sequential ascending
\* loop stored for that year, and the matrix made of the calls' results
\* equals the loop's forecast matrix, cell by cell over (year, subzone).
C27_InterleavedCallsGiveSequentialMatrix ==
    /\ \A k \in 1..Len(stored_results) :
          /\ stored_results[k][1] \in DOMAIN results_by_year
          /\ stored_results[k][2] = results_by_year[stored_results[k][1]]
    /\ interleaved_frame # << >> =>
          /\ FrameBuilt
          /\ interleaved_frame = forecasted_num_preschoolers

\* The matrix of the interleaved calls is built: every call but the first
\* began while another was running, the results were stored in descending
\* order of forecast year, and no two rows of the matrix are equal.
C27_Witness ==
    /\ interleaved_frame # << >>
    /\ Len(forecast_years) = InterleavedYears
    /\ Cardinality({ y \in DOMAIN calls : calls[y].began_during_another })
          = InterleavedYears - 1
    /\ \A k \in 1..(Len(stored_results) - 1) :
          StoredOrder[k] > StoredOrder[k + 1]
    /\ \A y, z \in DOMAIN interleaved_frame :
          y # z => interleaved_frame[y] # interleaved_frame[z]

\* A run of the preschool processor has returned its counts.
SupplyComputed == pc = "gap" /\ existing_preschools_by_subzone # << >>

\* The supply table a geocoded listing gives on the subzone polygons.
SupplyOf(preschool_data) ==
    [ subzone \in DOMAIN subzone_data |->
        count_childcare_centres_per_subzone(subzone_data,
                                            preschool_data)[subzone][1] ]

\* The supply table the raw listing on disk gives.
SupplyFromRawListing ==
    SupplyOf(get_preschool_latlon(files[RawPreschoolPath]))

\* The configured processed file is on disk.
ProcessedFileExists ==
    /\ processed_preschool_data_path # << >>
    /\ processed_preschool_data_path[1] \in DOMAIN files

\* C28 as stated: every run's existing-supply table is rebuilt from the raw
\* listing, whatever files an earlier run left behind.
C28_SupplyRebuiltFromRaw ==
    SupplyComputed =>
        existing_preschools_by_subzone = SupplyFromRawListing

\* C28 amended: when the configured processed file exists as the processor
\* is constructed, left by an earlier run or by another session, that
\* file's listing is loaded in place of the raw listing and the run counts
\* its centres; only otherwise is the raw listing loaded, geocoded and
\* counted, and the run then saves the geocoded listing at
\* data/preschools_data_processed.csv.
C28_SupplyReusesProcessedFile ==
    /\ [](SupplyComputed =>
            IF processed_preschool_data # << >>
            THEN /\ raw_preschool_data = << >>
                 /\ existing_preschools_by_subzone =
                       SupplyOf(processed_preschool_data[1])
            ELSE /\ raw_preschool_data =
                       << get_preschool_latlon(files[RawPreschoolPath]) >>
                 /\ existing_preschools_by_subzone = SupplyFromRawListing)
    /\ [][ /\ pc = "construct" /\ pc' # "construct" =>
                IF ProcessedFileExists
                THEN /\ processed_preschool_data' =
                           << files[processed_preschool_data_path[1]] >>
                     /\ raw_preschool_data' = << >>
                ELSE /\ processed_preschool_data' = << >>
                     /\ raw_preschool_data' = << files[RawPreschoolPath] >>
           /\ pc = "preschool_save" /\ pc' # "preschool_save" =>
                files'[WrittenPreschoolPath] =
                    get_preschool_latlon(files[RawPreschoolPath])
         ]_vars

\* A run used the file an earlier run or session saved, which no longer
\* agrees with the raw listing.
C28_Witness ==
    /\ SupplyComputed
    /\ processed_preschool_data_path = << WrittenPreschoolPath >>
    /\ processed_preschool_data # << >>
    /\ existing_preschools_by_subzone # SupplyFromRawListing

\* extrapolate_births has been applied to the table for birth_years.
ExtrapolationDone ==
    pc \in { "extrapolate_again", "select_rates", "bto_run", "KeyError" }

\* The years of birth_years without a column in the fertility table.
YearsWithoutColumn ==
    { y \in SeqToSet(birth_years) : Str(y) \notin DOMAIN fertility_data }

\* C29 as stated: after extrapolate_births(B) every year of B has a column
\* in the fertility table, and the selections of those years never hit a
\* missing year.
C29_ExtrapolationCoversBirthYears ==
    ExtrapolationDone =>
        /\ YearsWithoutColumn = {}
        /\ pc # "KeyError"

\* The earliest completion year in the housing data.
EarliestCompletion ==
    CHOOSE y \in { bto_data[i].Year : i \in 1..Len(bto_data) } :
        \A i \in 1..Len(bto_data) : y <= bto_data[i].Year

\* The units completed in a subzone up to and including a year.
CumulativeUnitsUpTo(subzone, year) ==
    SumFn([ i \in ProjectsOf(subzone, year) |-> bto_data[i].Units ])

\* The birth years of the window from the earliest completion year on.
WindowYearsWithHousing ==
    { y \in SeqToSet(birth_years_for_target) : y >= EarliestCompletion }

\* C30 as stated: every birth year of the window that is not earlier than
\* the earliest completion year contributes with the cumulative units of
\* the subzone up to and including that year, also when no project
\* completes in that year. Both sides are multiplied by 4 * 1000 * 12.
C30_EveryWindowYearUsesCumulativeUnits ==
    YearComputed =>
        \A subzone \in DOMAIN bto_accumulated :
            bto_accumulated[subzone] =
                SumFn([ b \in WindowYearsWithHousing |->
                          CumulativeUnitsUpTo(subzone, b)
                          * bto_birth_rates[Str(b)]
                          * TwelveTimesDiscount(b) ])

=============================================================================
